---- MODULE Spec2Model ----
(***************************************************************************)
(* Document field-extraction pipeline of textract-utils.js: the block      *)
(* functions (text derivation, key-value pairing, pattern fallback,        *)
(* company identification) as operators, and the two orchestrators         *)
(* (processSinglePageDocument, processMultiPageDocument) as state machines *)
(* whose steps are the awaits of the code.                                 *)
(*                                                                         *)
(* A JavaScript string is a sequence of one-character strings, so that     *)
(* toLowerCase, includes, split, join and trim are computed, not assumed.  *)
(***************************************************************************)
EXTENDS Integers, Sequences, FiniteSets, TLC

(***************************************************************************)
(* Bounds of the model.                                                    *)
(***************************************************************************)
\* Longest scripted sequence of provider responses to one async job.
MaxBatches == 2
\* The poll counter is exact up to MaxPolls and saturates there; the polling
\* loop itself is never cut by the model.
MaxPolls == MaxBatches + 2
\* Longest text given to company identification on its own.
MaxTextLen == 4
\* Longest registry given to company identification on its own.
MaxRegistry == 2
\* Most ids in the CHILD relationship of a value block.
MaxChildren == 3
\* Most LINE blocks given to extractFieldByPattern on its own.
MaxLines == 2
\* Most field names requested from extractFields on its own.
MaxFields == 2
\* Most lines below the header given to extractTableData on its own, the
\* four-line sample aside.
MaxRows == 3
\* Most results given to storeResultsInTables on its own.
MaxResults == 2
\* Most pages of a document handed to the handler.
MaxPages == 3

(***************************************************************************)
(* JavaScript values.                                                      *)
(***************************************************************************)
\* null / undefined where a string is expected (no string has this shape:
\* every element of a string is a single character).
Null == <<"<null>">>
\* undefined where a list is expected (an attribute the item does not have).
Undefined == <<"<undefined>">>
\* The outcome of an operator whose code throws a TypeError.
Thrown == <<"<TypeError>">>
\* An absent, null or empty NextToken: all are falsy in the code's tests.
NoToken == "none"

UpperChars == <<"A","B","C","D","E","F","G","H","I","J","K","L","M",
                "N","O","P","Q","R","S","T","U","V","W","X","Y","Z">>
LowerChars == <<"a","b","c","d","e","f","g","h","i","j","k","l","m",
                "n","o","p","q","r","s","t","u","v","w","x","y","z">>
WhiteSpace == {" ", "\n", "\t"}

LowerChar(c) ==
    IF \E i \in 1..Len(UpperChars) : UpperChars[i] = c
    THEN LowerChars[CHOOSE i \in 1..Len(UpperChars) : UpperChars[i] = c]
    ELSE c

toLowerCase(s) == [i \in 1..Len(s) |-> LowerChar(s[i])]

includes(s, sub) ==
    \E i \in 0..(Len(s) - Len(sub)) : SubSeq(s, i + 1, i + Len(sub)) = sub

RECURSIVE join(_, _)
join(parts, sep) ==
    IF parts = <<>> THEN <<>>
    ELSE IF Len(parts) = 1 THEN parts[1]
    ELSE parts[1] \o sep \o join(Tail(parts), sep)

RECURSIVE split(_, _)
split(s, seps) ==
    IF \E i \in 1..Len(s) : s[i] \in seps
    THEN LET i == CHOOSE k \in 1..Len(s) :
                     s[k] \in seps /\ \A j \in 1..(k - 1) : s[j] \notin seps
         IN  <<SubSeq(s, 1, i - 1)>> \o split(SubSeq(s, i + 1, Len(s)), seps)
    ELSE <<s>>

RECURSIVE trimStart(_)
trimStart(s) ==
    IF s # <<>> /\ s[1] \in WhiteSpace THEN trimStart(Tail(s)) ELSE s

RECURSIVE trimEnd(_)
trimEnd(s) ==
    IF s # <<>> /\ s[Len(s)] \in WhiteSpace
    THEN trimEnd(SubSeq(s, 1, Len(s) - 1)) ELSE s

trim(s) == trimEnd(trimStart(s))

\* JavaScript truthiness of a string-or-null value.
Truthy(v) == v # Null /\ v # <<>>


(***************************************************************************)
(* Blocks of an analysis response.                                         *)
(***************************************************************************)
NoPage == <<>>

Rel(type, ids) == [Type |-> type, Ids |-> ids]

Blk(id, type, text, roles, sel, page, rels) ==
    [Id |-> id, BlockType |-> type, Text |-> text, EntityTypes |-> roles,
     SelectionStatus |-> sel, Page |-> page, Relationships |-> rels]

\* The ids of every relationship of kind `type`, in relationship order.
RECURSIVE RelIds(_, _)
RelIds(rels, type) ==
    IF rels = <<>> THEN <<>>
    ELSE (IF rels[1].Type = type THEN rels[1].Ids ELSE <<>>)
         \o RelIds(Tail(rels), type)

\* rel.Ids.includes(id) for some relationship, whatever its kind.
SomeRelIncludes(block, id) ==
    \E r \in 1..Len(block.Relationships) :
        \E k \in 1..Len(block.Relationships[r].Ids) :
            block.Relationships[r].Ids[k] = id

IsKeyBlock(b) == b.BlockType = "KEY_VALUE_SET" /\ "KEY" \in b.EntityTypes
IsValueBlock(b) == b.BlockType = "KEY_VALUE_SET" /\ "KEY" \notin b.EntityTypes

\* Whether extractKeyValuePairs puts block b in the map called `which`.
InMap(b, which) ==
    CASE which = "keyMap" -> IsKeyBlock(b)
      [] which = "valueMap" -> IsValueBlock(b)
      [] which = "blockMap" -> TRUE

\* The object built by `map[block.Id] = block` over the blocks of that map: a
\* later block with the same Id replaces an earlier one.
IdMap(blocks, which) ==
    [id \in {blocks[i].Id : i \in {k \in 1..Len(blocks) : InMap(blocks[k], which)}} |->
        blocks[CHOOSE i \in 1..Len(blocks) :
                  /\ blocks[i].Id = id /\ InMap(blocks[i], which)
                  /\ \A j \in (i + 1)..Len(blocks) :
                        ~(blocks[j].Id = id /\ InMap(blocks[j], which))]]

\* ChildToken marking every selection element as selected.
ChildTokenAlwaysChecked(w) ==
    IF w.BlockType = "WORD" THEN <<w.Text>>
    ELSE IF w.BlockType = "SELECTION_ELEMENT" THEN <<(<<"[", "X", "]">>)>> ELSE <<>>

ChildToken(w) ==
    IF w.BlockType = "WORD" THEN <<w.Text>>
    ELSE IF w.BlockType = "SELECTION_ELEMENT"
         THEN <<(IF w.SelectionStatus = "SELECTED"
                 THEN <<"[", "X", "]">> ELSE <<"[", " ", "]">>)>>
         ELSE <<>>

RECURSIVE ChildTokens(_, _)
ChildTokens(childIds, blockMap) ==
    IF childIds = <<>> THEN <<>>
    ELSE ChildToken(blockMap[childIds[1]]) \o ChildTokens(Tail(childIds), blockMap)

\* getTextForBlock: Thrown when a CHILD id has no block in blockMap
\* (wordBlock is undefined and wordBlock.BlockType raises).
getTextForBlock(block, blockMap) ==
    LET childIds == RelIds(block.Relationships, "CHILD")
    IN  IF \E i \in 1..Len(childIds) : childIds[i] \notin DOMAIN blockMap
        THEN Thrown
        ELSE join(ChildTokens(childIds, blockMap), <<" ">>)

EmptyMap == [k \in {} |-> <<>>]

\* The inner loop of extractKeyValuePairs over the ids of the VALUE
\* relationships of one key block.  acc is [threw, kv].
RECURSIVE MapValues(_, _, _, _, _)
MapValues(keyText, valueIds, valueMap, blockMap, acc) ==
    IF valueIds = <<>> \/ acc.threw THEN acc
    ELSE IF valueIds[1] \notin DOMAIN valueMap
         THEN [acc EXCEPT !.threw = TRUE]
         ELSE LET valueText == getTextForBlock(valueMap[valueIds[1]], blockMap)
              IN  IF valueText = Thrown
                  THEN [acc EXCEPT !.threw = TRUE]
                  ELSE MapValues(keyText, Tail(valueIds), valueMap, blockMap,
                                 [acc EXCEPT !.kv = (keyText :> valueText) @@ acc.kv])

\* The outer loop of extractKeyValuePairs over the key blocks.
RECURSIVE MapKeys(_, _, _, _)
MapKeys(keyBlocks, valueMap, blockMap, acc) ==
    IF keyBlocks = <<>> \/ acc.threw THEN acc
    ELSE LET keyText == getTextForBlock(keyBlocks[1], blockMap)
         IN  IF keyText = Thrown
             THEN [acc EXCEPT !.threw = TRUE]
             ELSE MapKeys(Tail(keyBlocks), valueMap, blockMap,
                          MapValues(keyText, RelIds(keyBlocks[1].Relationships, "VALUE"),
                                    valueMap, blockMap, acc))

\* extractKeyValuePairs visiting the key blocks from the last to the first.
extractKeyValuePairsFirstWins(blocks) ==
    LET keyBlocks == SelectSeq(blocks, IsKeyBlock)
    IN  MapKeys([i \in 1..Len(keyBlocks) |-> keyBlocks[Len(keyBlocks) + 1 - i]],
                IdMap(blocks, "valueMap"), IdMap(blocks, "blockMap"),
                [threw |-> FALSE, kv |-> EmptyMap])

\* extractKeyValuePairs: [threw |-> TRUE] when the code raises a TypeError,
\* else the mapping in kv.  Block ids are unique in a response, so the keys of
\* keyMap are visited in the order of the blocks.
extractKeyValuePairs(blocks) ==
    MapKeys(SelectSeq(blocks, IsKeyBlock), IdMap(blocks, "valueMap"),
            IdMap(blocks, "blockMap"), [threw |-> FALSE, kv |-> EmptyMap])

IsLine(b) == b.BlockType = "LINE"
\* blocks.map(block => block.Text)
Texts(blocks) == [i \in 1..Len(blocks) |-> blocks[i].Text]

extractText(blocks) == join(Texts(SelectSeq(blocks, IsLine)), <<"\n">>)

Separators == {":", "-", "="}

RECURSIVE PatternScan(_, _)
PatternScan(lines, fieldName) ==
    IF lines = <<>> THEN Null
    ELSE LET parts == split(lines[1], Separators)
         IN  IF includes(lines[1], toLowerCase(fieldName)) /\ Len(parts) > 1
             THEN trim(join(Tail(parts), <<":">>))
             ELSE PatternScan(Tail(lines), fieldName)

extractFieldByPattern(blocks, fieldName) ==
    PatternScan(split(toLowerCase(extractText(blocks)), {"\n"}), fieldName)

\* keyValues is an object literal: a name it has no entry for is looked up in
\* Object.prototype, whose members are functions or objects, all truthy.
sConstructor == <<"c","o","n","s","t","r","u","c","t","o","r">>
sToString == <<"t","o","S","t","r","i","n","g">>
ObjectPrototypeNames == {sConstructor, sToString}
Inherited == <<"<inherited>">>

\* keyValuePairs[field]; Null for undefined.
Lookup(kv, field) ==
    IF field \in DOMAIN kv THEN kv[field]
    ELSE IF field \in ObjectPrototypeNames THEN Inherited ELSE Null

\* extractFields: [threw, fields]; fields maps every requested name to the
\* key-value text when truthy, else to the pattern result.
extractFields(blocks, fieldsToExtract) ==
    LET pairs == extractKeyValuePairs(blocks)
    IN  IF pairs.threw
        THEN [threw |-> TRUE, fields |-> EmptyMap]
        ELSE [threw |-> FALSE,
              fields |-> [f \in {fieldsToExtract[i] : i \in 1..Len(fieldsToExtract)} |->
                            IF Truthy(Lookup(pairs.kv, f)) THEN Lookup(pairs.kv, f)
                            ELSE extractFieldByPattern(blocks, f)]]

\* extractTextFromPage: the LINE blocks with a CHILD relationship that lists
\* the page's id.
IsLineOfPage(b, pageId) ==
    /\ b.BlockType = "LINE"
    /\ \E r \in 1..Len(b.Relationships) :
          /\ b.Relationships[r].Type = "CHILD"
          /\ \E k \in 1..Len(b.Relationships[r].Ids) :
                b.Relationships[r].Ids[k] = pageId

extractTextFromPage(blocks, pageId) ==
    LET OfPage(b) == IsLineOfPage(b, pageId)
    IN  join(Texts(SelectSeq(blocks, OfPage)), <<"\n">>)

\* extractFieldsFromPage without the filter on the page.
extractFieldsFromAllPages(blocks, pageId, fieldsToExtract) ==
    extractFields(blocks, fieldsToExtract)

\* const pageBlocks = blocks.filter(...), then as extractFields on pageBlocks.
extractFieldsFromPage(blocks, pageId, fieldsToExtract) ==
    LET OfPage(b) == b.Page = pageId \/ SomeRelIncludes(b, pageId)
    IN  extractFields(SelectSeq(blocks, OfPage), fieldsToExtract)

(***************************************************************************)
(* Company identification.                                                 *)
(***************************************************************************)
NoRecord == [company |-> Null, fields |-> <<>>, targetTables |-> <<>>]

\* findMatchingCompanyInPage preferring the longest name that occurs.
findLongestMatchingCompany(pageText, companyRecords) ==
    LET hit(i) == includes(toLowerCase(pageText), toLowerCase(companyRecords[i].company))
        best(i) == /\ hit(i)
                   /\ \A j \in 1..Len(companyRecords) :
                         hit(j) => \/ Len(companyRecords[j].company) < Len(companyRecords[i].company)
                                   \/ (/\ Len(companyRecords[j].company) = Len(companyRecords[i].company)
                                       /\ i <= j)
    IN  IF \E i \in 1..Len(companyRecords) : hit(i)
        THEN companyRecords[CHOOSE i \in 1..Len(companyRecords) : best(i)]
        ELSE NoRecord

\* Array.prototype.find: the first record, in registry order, whose
\* lower-cased name occurs in the lower-cased text; NoRecord is undefined.
findMatchingCompanyInPage(pageText, companyRecords) ==
    LET hit(i) == includes(toLowerCase(pageText), toLowerCase(companyRecords[i].company))
    IN  IF \E i \in 1..Len(companyRecords) : hit(i)
        THEN companyRecords[CHOOSE i \in 1..Len(companyRecords) :
                               hit(i) /\ \A j \in 1..(i - 1) : ~hit(j)]
        ELSE NoRecord

(***************************************************************************)
(* Inputs: texts, registries and response batches.                         *)
(***************************************************************************)
sAcme == <<"A","c","m","e">>
sAcmeCorp == <<"A","c","m","e"," ","C","o","r","p">>
sDate == <<"D","a","t","e",":">>
sPO == <<"P","O">>
sLineAcme == <<"A","C","M","E"," ","C","o","r","p">>
sLineGlobex == <<"G","l","o","b","e","x">>
sLinePO == <<"P","O","=","7">>
sWord05 == <<"0","5">>

RecAcme == [company |-> sAcme, fields |-> <<sDate, sPO>>, targetTables |-> <<"T1">>]
\* An item without a targetTables attribute.
RecAcmeCorp == [company |-> sAcmeCorp, fields |-> <<sPO>>, targetTables |-> Undefined]

Registries == {<<RecAcme, RecAcmeCorp>>, <<RecAcmeCorp, RecAcme>>}

\* The blocks of page p of a batch.  "match" names a company and carries a
\* form field; "nomatch" names none; "dangling" names a company and has a
\* key block whose VALUE id resolves to no block of the batch.
PageOf(p, kind) ==
    LET pg == <<p, "page">>
        line(n, t) == Blk(<<p, n>>, "LINE", t, {}, "", NoPage, <<Rel("CHILD", <<pg>>)>>)
        word(n, t) == Blk(<<p, n>>, "WORD", t, {}, "", pg, <<>>)
        key(v) == Blk(<<p, "k">>, "KEY_VALUE_SET", <<>>, {"KEY"}, "", pg,
                      <<Rel("VALUE", <<<<p, v>>>>), Rel("CHILD", <<<<p, "kw">>>>)>>)
        val == Blk(<<p, "v">>, "KEY_VALUE_SET", <<>>, {"VALUE"}, "", pg,
                   <<Rel("CHILD", <<<<p, "vw">>>>)>>)
        page == Blk(pg, "PAGE", <<>>, {}, "", NoPage, <<>>)
    IN  CASE kind = "match" ->
               <<page, line("l1", sLineAcme), line("l2", sLinePO),
                 key("v"), word("kw", sDate), val, word("vw", sWord05)>>
          [] kind = "nomatch" -> <<page, line("l1", sLineGlobex)>>
          [] kind = "dangling" ->
               <<page, line("l1", sLineAcme), key("gone"), word("kw", sDate)>>

\* The batches a response can carry, by name.
BatchNames == {"nomatch-then-match", "dangling"}

BatchBlocks(name) ==
    CASE name = "one-match" -> PageOf(1, "match")
      [] name = "nomatch" -> PageOf(1, "nomatch")
      [] name = "nomatch-then-match" -> PageOf(1, "nomatch") \o PageOf(2, "match")
      [] name = "dangling" -> PageOf(1, "dangling")
      [] name = "empty" -> <<>>

Tokens == {"t1", "t2"}
JobStatuses == {"IN_PROGRESS", "SUCCEEDED", "FAILED"}
JobIds == {"job-a", "job-b"}

\* A response of the script: Batch names its Blocks.
Responses ==
    [Batch : BatchNames, JobStatus : JobStatuses, NextToken : Tokens \cup {NoToken}]

Blocks(response) == BatchBlocks(response.Batch)

\* What the provider answers once the scripted responses are used up: the
\* job is still running and there is nothing new.
StillRunning == [Batch |-> "empty", JobStatus |-> "IN_PROGRESS", NextToken |-> "t1"]

Scripts == UNION {[1..n -> Responses] : n \in 1..MaxBatches}

(***************************************************************************)
(* State.                                                                  *)
(***************************************************************************)
VARIABLES
    companyRecords, \* the registry's records, in scan order
    script,         \* the responses the provider will give to the job's polls
    served,         \* how many of them it has given
    pc,             \* position of the running operation
    error,          \* what it raised, "none" if nothing
    jobId,          \* processMultiPageDocument: const jobId
    issuedJobId,    \* the JobId the provider returned to the submission
    nextToken,      \* processMultiPageDocument: let nextToken
    currentPage,    \* processMultiPageDocument: let currentPage
    finished,       \* processMultiPageDocument: let finished
    results,        \* the results array of the running orchestrator
    requests,       \* log of the first MaxPolls GetDocumentAnalysis requests
    responses,      \* log of the status and cursor of their responses
    pagesSeen,      \* the text of every PAGE block whose processing began
    document,       \* processSinglePageDocument: the document that is analysed
    company,        \* processSinglePageDocument: const company
    fieldsToExtract, \* processSinglePageDocument: const fieldsToExtract
    extractionResults, \* processSinglePageDocument: const extractionResults
    lookup,         \* how the registry answers getTargetTablesForCompany
    calls,          \* the calls processSinglePageDocument has made, in order
    fnArgs,         \* the arguments of a function called on its own
    fnOut,          \* what that call returned
    puts,           \* log of the PutCommands sent by storeResultsInTables
    resultAt,       \* storeResultsInTables: position of the outer loop
    tableAt,        \* storeResultsInTables: position of the inner loop
    event,          \* handler: the event it is invoked with
    probe,          \* how HeadObject and the LAYOUT analysis answered getPageCount
    pageCount,      \* handler: const pageCount
    statusCode,     \* handler: the statusCode of the response it returned
    handlerStatus,  \* handler: the status in the body of that response
    responseBody    \* handler: the rest of that body

multiVars == <<script, served, jobId, issuedJobId, nextToken, currentPage, finished,
               requests, responses, pagesSeen>>
singleVars == <<document, company, fieldsToExtract, extractionResults, lookup, calls>>
fnVars == <<fnArgs, fnOut>>
storeVars == <<puts, resultAt, tableAt>>
handlerVars == <<event, probe, pageCount, statusCode, handlerStatus, responseBody>>

vars == <<companyRecords, pc, error, results, multiVars, singleVars, fnVars,
          storeVars, handlerVars>>

(***************************************************************************)
(* processMultiPageDocument.                                               *)
(***************************************************************************)
\* getAsyncResults sending no JobId.
getAsyncResultsNoJob(id, token) ==
    [JobId |-> "none", NextToken |-> IF token # "none" THEN token ELSE "none"]

\* getAsyncResults: NextToken is put in the request only when truthy.
getAsyncResults(id, token) ==
    [JobId |-> id, NextToken |-> IF token # NoToken THEN token ELSE NoToken]

\* matchedCompany.targetTables || []
TablesOrEmpty(tables) == IF tables = Undefined THEN <<>> ELSE tables

IsPage(b) == b.BlockType = "PAGE"

\* ProcessPage with currentPage++ moved inside `if (matchedCompany)`.
ProcessPageCountMatched(blocks, pageBlock, records, st) ==
    LET pageText == extractTextFromPage(blocks, pageBlock.Id)
        matchedCompany == findMatchingCompanyInPage(pageText, records)
        extracted == extractFieldsFromPage(blocks, pageBlock.Id, matchedCompany.fields)
        seen == Append(st.seen, pageText)
    IN  IF matchedCompany = NoRecord
        THEN [st EXCEPT !.seen = seen]
        ELSE IF extracted.threw
             THEN [st EXCEPT !.seen = seen, !.threw = TRUE]
             ELSE [st EXCEPT !.seen = seen,
                             !.results = Append(st.results,
                                 [company |-> matchedCompany.company,
                                  pageNumber |-> st.currentPage,
                                  extractedFields |-> extracted.fields,
                                  targetTables |-> IF matchedCompany.targetTables = Undefined
                                                   THEN <<>> ELSE matchedCompany.targetTables]),
                             !.currentPage = st.currentPage + 1]

\* ProcessPage raising on a page without a company, as the single-page flow does.
ProcessPageNoMatchRaises(blocks, pageBlock, records, st) ==
    LET pageText == extractTextFromPage(blocks, pageBlock.Id)
        matchedCompany == findMatchingCompanyInPage(pageText, records)
        extracted == extractFieldsFromPage(blocks, pageBlock.Id, matchedCompany.fields)
        seen == Append(st.seen, pageText)
    IN  IF matchedCompany = NoRecord \/ extracted.threw
        THEN [st EXCEPT !.seen = seen, !.threw = TRUE]
        ELSE [st EXCEPT !.seen = seen,
                        !.results = Append(st.results,
                            [company |-> matchedCompany.company,
                             pageNumber |-> st.currentPage,
                             extractedFields |-> extracted.fields,
                             targetTables |-> IF matchedCompany.targetTables = Undefined
                                              THEN <<>> ELSE matchedCompany.targetTables]),
                        !.currentPage = st.currentPage + 1]

\* ProcessPage assigning the new result to results in place of pushing it.
ProcessPageKeepsLast(blocks, pageBlock, records, st) ==
    LET pageText == extractTextFromPage(blocks, pageBlock.Id)
        matchedCompany == findMatchingCompanyInPage(pageText, records)
        extracted == extractFieldsFromPage(blocks, pageBlock.Id, matchedCompany.fields)
        seen == Append(st.seen, pageText)
    IN  IF matchedCompany = NoRecord
        THEN [st EXCEPT !.seen = seen, !.currentPage = st.currentPage + 1]
        ELSE IF extracted.threw
             THEN [st EXCEPT !.seen = seen, !.threw = TRUE]
             ELSE [st EXCEPT !.seen = seen,
                             !.results = <<[company |-> matchedCompany.company,
                                            pageNumber |-> st.currentPage,
                                            extractedFields |-> extracted.fields,
                                            targetTables |->
                                                IF matchedCompany.targetTables = Undefined
                                                THEN <<>> ELSE matchedCompany.targetTables]>>,
                             !.currentPage = st.currentPage + 1]

\* One iteration of `for (const pageBlock of pageBlocks)`; st holds results,
\* currentPage, the texts seen and whether the iteration raised.
ProcessPage(blocks, pageBlock, records, st) ==
    LET pageText == extractTextFromPage(blocks, pageBlock.Id)
        matchedCompany == findMatchingCompanyInPage(pageText, records)
        extracted == extractFieldsFromPage(blocks, pageBlock.Id, matchedCompany.fields)
        seen == Append(st.seen, pageText)
    IN  IF matchedCompany = NoRecord
        THEN [st EXCEPT !.seen = seen, !.currentPage = st.currentPage + 1]
        ELSE IF extracted.threw
             THEN [st EXCEPT !.seen = seen, !.threw = TRUE]
             ELSE [st EXCEPT !.seen = seen,
                             !.results = Append(st.results,
                                 [company |-> matchedCompany.company,
                                  pageNumber |-> st.currentPage,
                                  extractedFields |-> extracted.fields,
                                  targetTables |-> TablesOrEmpty(matchedCompany.targetTables)]),
                             !.currentPage = st.currentPage + 1]

RECURSIVE ProcessPages(_, _, _, _)
ProcessPages(blocks, pageBlocks, records, st) ==
    IF pageBlocks = <<>> \/ st.threw THEN st
    ELSE ProcessPages(blocks, Tail(pageBlocks), records,
                      ProcessPage(blocks, pageBlocks[1], records, st))

\* LoopEnds with FAILED left out of the statuses that end the loop.
LoopEndsNotOnFailed(response) ==
    response.NextToken = NoToken \/ response.JobStatus = "SUCCEEDED"

\* The test that sets finished.
LoopEnds(response) ==
    response.NextToken = NoToken \/ response.JobStatus # "IN_PROGRESS"

\* ContinueToken without the assignment `nextToken = response.NextToken`.
ContinueTokenStale(token, response) == token

\* The cursor of the next poll when the loop goes on.
ContinueToken(token, response) == response.NextToken

NoJob == "none"

\* The variables of the flows that are not running.
MultiIdle ==
    /\ script = <<>> /\ served = 0 /\ jobId = NoJob /\ issuedJobId = NoJob
    /\ nextToken = NoToken /\ currentPage = 1 /\ finished = FALSE
    /\ requests = <<>> /\ responses = <<>> /\ pagesSeen = <<>>

SingleIdle ==
    /\ document = "none" /\ company = Null /\ fieldsToExtract = <<>>
    /\ extractionResults = EmptyMap /\ lookup = "none" /\ calls = <<>>

FnIdle == fnArgs = <<>> /\ fnOut = <<>>
StoreIdle == puts = <<>> /\ resultAt = 0 /\ tableAt = 0
HandlerIdle ==
    /\ event = "none" /\ probe = <<>> /\ pageCount = 0
    /\ statusCode = 0 /\ handlerStatus = "none" /\ responseBody = <<>>

Init ==
    /\ companyRecords \in Registries
    /\ script \in Scripts
    /\ served = 0
    /\ pc = "submit"
    /\ error = "none"
    /\ jobId = NoJob
    /\ issuedJobId = NoJob
    /\ nextToken = NoToken
    /\ currentPage = 1
    /\ finished = FALSE
    /\ results = <<>>
    /\ requests = <<>>
    /\ responses = <<>>
    /\ pagesSeen = <<>>
    /\ SingleIdle
    /\ FnIdle
    /\ StoreIdle
    /\ HandlerIdle

\* const jobId = await startAsyncTextractJob(s3Location)
Submit ==
    /\ pc = "submit"
    /\ \E id \in JobIds : jobId' = id /\ issuedJobId' = id
    /\ pc' = "poll"
    /\ UNCHANGED <<storeVars, handlerVars, singleVars, fnVars, companyRecords, script, served, error, nextToken, currentPage,
                   finished, results, requests, responses, pagesSeen>>

\* The submission raises (network, auth, quota).
SubmitFails ==
    /\ pc = "submit"
    /\ pc' = "failed"
    /\ error' = "ProviderError"
    /\ UNCHANGED <<storeVars, handlerVars, singleVars, fnVars, companyRecords, script, served, jobId, issuedJobId, nextToken,
                   currentPage, finished, results, requests, responses, pagesSeen>>

\* `while (!finished)` reaches `await getAsyncResults(jobId, nextToken)`: the
\* request is sent.
PollRequest ==
    /\ pc = "poll"
    /\ ~finished
    /\ pc' = "awaiting"
    /\ requests' = IF Len(requests) < MaxPolls
                   THEN Append(requests, getAsyncResults(jobId, nextToken))
                   ELSE requests
    /\ UNCHANGED <<storeVars, handlerVars, singleVars, fnVars, companyRecords, script, served, error, jobId, issuedJobId, nextToken,
                   currentPage, finished, results, responses, pagesSeen>>

\* The awaited call raises (network, auth, quota).
PollFails ==
    /\ pc = "awaiting"
    /\ pc' = "failed"
    /\ error' = "ProviderError"
    /\ UNCHANGED <<storeVars, handlerVars, singleVars, fnVars, companyRecords, script, served, jobId, issuedJobId, nextToken,
                   currentPage, finished, results, requests, responses, pagesSeen>>

\* The response arrives: the rest of the loop body, that is the pages of the
\* batch and the termination test, and the return when the loop ends.
PollResponse ==
    /\ pc = "awaiting"
    /\ \E response \in {IF served < Len(script) THEN script[served + 1] ELSE StillRunning} :
         \E st \in {ProcessPages(Blocks(response), SelectSeq(Blocks(response), IsPage),
                                 companyRecords,
                                 [results |-> results, currentPage |-> currentPage,
                                  seen |-> pagesSeen, threw |-> FALSE])} :
           /\ served' = IF served < Len(script) THEN served + 1 ELSE served
           /\ responses' = IF Len(responses) < MaxPolls
                           THEN Append(responses, [JobStatus |-> response.JobStatus,
                                                   NextToken |-> response.NextToken])
                           ELSE responses
           /\ results' = st.results
           /\ currentPage' = st.currentPage
           /\ pagesSeen' = st.seen
           /\ IF st.threw
              THEN /\ pc' = "failed"
                   /\ error' = "TypeError"
                   /\ UNCHANGED <<finished, nextToken>>
              ELSE IF LoopEnds(response)
                   THEN /\ finished' = TRUE
                        /\ pc' = "done"
                        /\ UNCHANGED <<error, nextToken>>
                   ELSE /\ nextToken' = ContinueToken(nextToken, response)
                        /\ pc' = "poll"
                        /\ UNCHANGED <<error, finished>>
    /\ UNCHANGED <<storeVars, handlerVars, singleVars, fnVars, companyRecords, script, jobId, issuedJobId, requests>>

Next == Submit \/ SubmitFails \/ PollRequest \/ PollFails \/ PollResponse

Spec == Init /\ [][Next]_vars

\* The event loop resumes the operation whenever an awaited call has settled.
FairSpec == Spec /\ WF_vars(Next)

(***************************************************************************)
(* processSinglePageDocument.                                              *)
(***************************************************************************)
\* The documents a single-page run can be given, by name.
SingleDocs == {"one-match", "nomatch", "dangling", "nomatch-then-match"}

\* What the registry table can hold.  A company name is the table's key and
\* is never the empty string.
SingleRegistries == Registries \cup {<<>>, <<RecAcme>>, <<RecAcmeCorp>>}

\* How GetCommand can answer: the item, no item, or an error.
LookupOutcomes == {"item", "no-item", "throws"}

\* identifyCompanyAndFields, given what getAllCompanyRecords returned.
identifyCompanyAndFields(documentText, records) ==
    LET hit(i) == includes(toLowerCase(documentText), toLowerCase(records[i].company))
    IN  IF \E i \in 1..Len(records) : hit(i)
        THEN LET record == records[CHOOSE i \in 1..Len(records) :
                                      hit(i) /\ \A j \in 1..(i - 1) : ~hit(j)]
             IN  [company |-> record.company, fieldsToExtract |-> record.fields]
        ELSE [company |-> Null, fieldsToExtract |-> <<>>]

\* getTargetTablesForCompany: data.Item?.targetTables || [], and [] when the
\* lookup raises.
getTargetTablesForCompany(records, name, outcome) ==
    IF outcome = "item" /\ \E i \in 1..Len(records) : records[i].company = name
    THEN TablesOrEmpty(records[CHOOSE i \in 1..Len(records) :
                                  records[i].company = name].targetTables)
    ELSE <<>>

\* NotRecognized with the test `if (!company)` removed.
NotRecognizedNever(name) == FALSE

\* if (!company)
NotRecognized(name) == ~Truthy(name)

DocumentText == extractText(BatchBlocks(document))

SingleInit ==
    /\ companyRecords \in SingleRegistries
    /\ document \in SingleDocs
    /\ pc = "analyze"
    /\ error = "none"
    /\ results = <<>>
    /\ company = Null
    /\ fieldsToExtract = <<>>
    /\ extractionResults = EmptyMap
    /\ lookup = "none"
    /\ calls = <<>>
    /\ MultiIdle
    /\ FnIdle
    /\ StoreIdle
    /\ HandlerIdle

\* const textractData = await analyzeDocument(s3Location)
Analyze ==
    /\ pc = "analyze"
    /\ pc' = "identify"
    /\ calls' = Append(calls, "analyzeDocument")
    /\ UNCHANGED <<storeVars, handlerVars, multiVars, fnVars, companyRecords, error, results, document, company,
                   fieldsToExtract, extractionResults, lookup>>

\* analyzeDocument raises.
AnalyzeFails ==
    /\ pc = "analyze"
    /\ pc' = "failed"
    /\ error' = "ProviderError"
    /\ calls' = Append(calls, "analyzeDocument")
    /\ UNCHANGED <<storeVars, handlerVars, multiVars, fnVars, companyRecords, results, document, company,
                   fieldsToExtract, extractionResults, lookup>>

\* getAllCompanyRecords returns inside identifyCompanyAndFields; the code runs
\* on to the next await, the call of getTargetTablesForCompany, unless it
\* raises before.
Identify ==
    /\ pc = "identify"
    /\ \E id \in {identifyCompanyAndFields(DocumentText, companyRecords)} :
         /\ company' = id.company
         /\ fieldsToExtract' = id.fieldsToExtract
         /\ IF NotRecognized(id.company)
            THEN /\ pc' = "failed"
                 /\ error' = "CompanyNotRecognized"
                 /\ calls' = Append(calls, "getAllCompanyRecords")
                 /\ UNCHANGED extractionResults
            ELSE \E extracted \in {extractFields(BatchBlocks(document), id.fieldsToExtract)} :
                   IF extracted.threw
                   THEN /\ pc' = "failed"
                        /\ error' = "TypeError"
                        /\ calls' = calls \o <<"getAllCompanyRecords", "extractFields">>
                        /\ UNCHANGED extractionResults
                   ELSE /\ pc' = "tables"
                        /\ extractionResults' = extracted.fields
                        /\ calls' = calls \o <<"getAllCompanyRecords", "extractFields",
                                               "getTargetTablesForCompany">>
                        /\ UNCHANGED error
    /\ UNCHANGED <<storeVars, handlerVars, multiVars, fnVars, companyRecords, results, document, lookup>>

\* getAllCompanyRecords raises.
IdentifyFails ==
    /\ pc = "identify"
    /\ pc' = "failed"
    /\ error' = "ProviderError"
    /\ calls' = Append(calls, "getAllCompanyRecords")
    /\ UNCHANGED <<storeVars, handlerVars, multiVars, fnVars, companyRecords, results, document, company,
                   fieldsToExtract, extractionResults, lookup>>

\* getTargetTablesForCompany settles, the result is built and returned.
Tables ==
    /\ pc = "tables"
    /\ \E outcome \in LookupOutcomes :
         /\ lookup' = outcome
         /\ results' = <<[company |-> company,
                          pageNumber |-> 1,
                          extractedFields |-> extractionResults,
                          targetTables |->
                              getTargetTablesForCompany(companyRecords, company, outcome)]>>
    /\ pc' = "done"
    /\ UNCHANGED <<storeVars, handlerVars, multiVars, fnVars, companyRecords, error, document, company,
                   fieldsToExtract, extractionResults, calls>>

SingleNext == Analyze \/ AnalyzeFails \/ Identify \/ IdentifyFails \/ Tables

SingleSpec == SingleInit /\ [][SingleNext]_vars

(***************************************************************************)
(* Company identification called on its own.                               *)
(***************************************************************************)
sInvoice == <<"a","c","m","e"," ","c","o","r","p"," ","i","n","v","o","i","c","e">>

CoAlphabet == {"a", "A", "b", " "}
CoTexts == UNION {[1..n -> CoAlphabet] : n \in 0..MaxTextLen}

\* Records whose names are made of the alphabet of the texts; the first name
\* is a prefix of the second, as Acme is of Acme Corp.
RecAb == [company |-> <<"A","b">>, fields |-> <<sPO>>, targetTables |-> <<"T1">>]
RecAbA == [company |-> <<"A","b"," ","A">>, fields |-> <<sDate>>, targetTables |-> <<"T2">>]
RecBa == [company |-> <<"b","a">>, fields |-> <<>>, targetTables |-> <<>>]
CoRecords == {RecAb, RecAbA, RecBa}

\* The registries of at most MaxRegistry records, no company twice.
CoRegistries ==
    {r \in UNION {[1..n -> CoRecords] : n \in 0..MaxRegistry} :
        \A i, j \in 1..Len(r) : i # j => r[i] # r[j]}

CoArgs ==
    [text : CoTexts, records : CoRegistries]
        \cup [text : {sInvoice}, records : Registries]

CompanyInit ==
    /\ fnArgs \in CoArgs
    /\ fnOut = <<>>
    /\ pc = "call"
    /\ error = "none"
    /\ results = <<>>
    /\ companyRecords = <<>>
    /\ MultiIdle
    /\ SingleIdle
    /\ StoreIdle
    /\ HandlerIdle

CallFindMatchingCompanyInPage ==
    /\ pc = "call"
    /\ fnOut' = findMatchingCompanyInPage(fnArgs.text, fnArgs.records)
    /\ pc' = "found"
    /\ UNCHANGED <<storeVars, handlerVars, multiVars, singleVars, companyRecords, error, results, fnArgs>>

CallIdentifyCompanyAndFields ==
    /\ pc = "call"
    /\ fnOut' = identifyCompanyAndFields(fnArgs.text, fnArgs.records)
    /\ pc' = "identified"
    /\ UNCHANGED <<storeVars, handlerVars, multiVars, singleVars, companyRecords, error, results, fnArgs>>

CompanyNext == CallFindMatchingCompanyInPage \/ CallIdentifyCompanyAndFields

CompanySpec == CompanyInit /\ [][CompanyNext]_vars

(***************************************************************************)
(* extractKeyValuePairs called on its own.                                 *)
(***************************************************************************)
GoneId == <<0, "gone">>

\* Where the VALUE relationship of a key block can point: a value block of
\* the input, or an id that no block of the input has.
KvTargets == {<<1, "v">>, <<2, "v">>, GoneId}

\* What the child of a value block can be; "gone" is a CHILD id that no block
\* of the input has.
KvChildKinds == {"word", "selected", "unselected", "gone"}

KvKey(i, text, target) ==
    <<Blk(<<i, "k">>, "KEY_VALUE_SET", <<>>, {"KEY"}, "", NoPage,
          <<Rel("VALUE", <<target>>), Rel("CHILD", <<<<i, "kw">>>>)>>),
      Blk(<<i, "kw">>, "WORD", text, {}, "", NoPage, <<>>)>>

KvValue(j, kind) ==
    <<Blk(<<j, "v">>, "KEY_VALUE_SET", <<>>, {"VALUE"}, "", NoPage,
          <<Rel("CHILD", <<<<j, "c">>>>)>>)>>
    \o CASE kind = "word" -> <<Blk(<<j, "c">>, "WORD", sWord05, {}, "", NoPage, <<>>)>>
         [] kind = "selected" ->
              <<Blk(<<j, "c">>, "SELECTION_ELEMENT", <<>>, {}, "SELECTED", NoPage, <<>>)>>
         [] kind = "unselected" ->
              <<Blk(<<j, "c">>, "SELECTION_ELEMENT", <<>>, {}, "NOT_SELECTED", NoPage, <<>>)>>
         [] kind = "gone" -> <<>>

\* Two key blocks and two value blocks.
KvInputs ==
    {KvKey(1, t1, g1) \o KvKey(2, t2, g2) \o KvValue(1, c1) \o KvValue(2, c2) :
        t1 \in {sDate, sPO}, t2 \in {sDate, sPO}, g1 \in KvTargets, g2 \in KvTargets,
        c1 \in KvChildKinds, c2 \in KvChildKinds}

\* What an id of a CHILD relationship of up to MaxChildren ids can resolve to.
ChildKinds == {"word05", "wordPO", "selected", "unselected", "gone"}

KvChild(i, kind) ==
    CASE kind = "word05" -> <<Blk(<<i, "c">>, "WORD", sWord05, {}, "", NoPage, <<>>)>>
      [] kind = "wordPO" -> <<Blk(<<i, "c">>, "WORD", sPO, {}, "", NoPage, <<>>)>>
      [] kind = "selected" ->
           <<Blk(<<i, "c">>, "SELECTION_ELEMENT", <<>>, {}, "SELECTED", NoPage, <<>>)>>
      [] kind = "unselected" ->
           <<Blk(<<i, "c">>, "SELECTION_ELEMENT", <<>>, {}, "NOT_SELECTED", NoPage, <<>>)>>
      [] kind = "gone" -> <<>>

RECURSIVE KvChildren(_, _)
KvChildren(kinds, n) ==
    IF n = 0 THEN <<>> ELSE KvChildren(kinds, n - 1) \o KvChild(n, kinds[n])

\* One key block 'Date:' and its value block, whose CHILD relationship lists
\* one id per element of kinds, in that order.
KvChildrenDoc(kinds) ==
    KvKey(1, sDate, <<1, "v">>)
    \o <<Blk(<<1, "v">>, "KEY_VALUE_SET", <<>>, {"VALUE"}, "", NoPage,
             <<Rel("CHILD", [i \in 1..Len(kinds) |-> <<i, "c">>])>>)>>
    \o KvChildren(kinds, Len(kinds))

KvChildrenInputs ==
    {KvChildrenDoc(kinds) : kinds \in UNION {[1..n -> ChildKinds] : n \in 0..MaxChildren}}

KvInit ==
    /\ fnArgs \in [blocks : KvInputs \cup KvChildrenInputs]
    /\ fnOut = <<>>
    /\ pc = "call"
    /\ error = "none"
    /\ results = <<>>
    /\ companyRecords = <<>>
    /\ MultiIdle
    /\ SingleIdle
    /\ StoreIdle
    /\ HandlerIdle

CallExtractKeyValuePairs ==
    /\ pc = "call"
    /\ \E out \in {extractKeyValuePairs(fnArgs.blocks)} :
         /\ fnOut' = out
         /\ error' = IF out.threw THEN "TypeError" ELSE "none"
    /\ pc' = "returned"
    /\ UNCHANGED <<storeVars, handlerVars, multiVars, singleVars, companyRecords, results, fnArgs>>

\* getTextForBlock on one block of the input, with the blockMap of the input.
CallGetTextForBlock ==
    /\ pc = "call"
    /\ \E i \in 1..Len(fnArgs.blocks) :
         \E text \in {getTextForBlock(fnArgs.blocks[i], IdMap(fnArgs.blocks, "blockMap"))} :
            /\ fnOut' = [block |-> fnArgs.blocks[i], text |-> text]
            /\ error' = IF text = Thrown THEN "TypeError" ELSE "none"
    /\ pc' = "text"
    /\ UNCHANGED <<storeVars, handlerVars, multiVars, singleVars, companyRecords, results, fnArgs>>

KvNext == CallExtractKeyValuePairs \/ CallGetTextForBlock

KvSpec == KvInit /\ [][KvNext]_vars

(***************************************************************************)
(* extractFieldByPattern called on its own.                                *)
(***************************************************************************)
sLineDate == <<"D","a","t","e",":"," ","2","0","2","4","-","0","1","-","0","5">>
sLineDateUpper == <<"D","A","T","E"," ","-"," ","M","o","n"," ">>
sX == <<"x">>

PatternLines == {sLineDate, sLineDateUpper, sLinePO, sLineAcme, sPO, <<>>}
PatternFields == {sDate, <<"D","a","t","e">>, sPO, sX}

LineBlock(i, text) == Blk(<<i, "l">>, "LINE", text, {}, "", NoPage, <<>>)

\* One to MaxLines LINE blocks.
PatternDocs ==
    {[i \in 1..Len(texts) |-> LineBlock(i, texts[i])] :
        texts \in UNION {[1..k -> PatternLines] : k \in 1..MaxLines}}

PatternInit ==
    /\ fnArgs \in [blocks : PatternDocs, fieldName : PatternFields]
    /\ fnOut = <<>>
    /\ pc = "call"
    /\ error = "none"
    /\ results = <<>>
    /\ companyRecords = <<>>
    /\ MultiIdle
    /\ SingleIdle
    /\ StoreIdle
    /\ HandlerIdle

CallExtractFieldByPattern ==
    /\ pc = "call"
    /\ fnOut' = [value |-> extractFieldByPattern(fnArgs.blocks, fnArgs.fieldName)]
    /\ pc' = "returned"
    /\ UNCHANGED <<storeVars, handlerVars, multiVars, singleVars, companyRecords, error, results, fnArgs>>

PatternNext == CallExtractFieldByPattern

PatternSpec == PatternInit /\ [][PatternNext]_vars

(***************************************************************************)
(* extractFields and extractFieldsFromPage called on their own.            *)
(***************************************************************************)
Pg1 == <<1, "page">>
Pg2 == <<2, "page">>

PagedLine(pg, n, text) ==
    Blk(<<pg[1], n>>, "LINE", text, {}, "", NoPage, <<Rel("CHILD", <<pg>>)>>)

\* The form part of page 1: a key block, the word of its text, and what its
\* VALUE id resolves to.
FieldKv(kind) ==
    LET key(v) == Blk(<<1, "k">>, "KEY_VALUE_SET", <<>>, {"KEY"}, "", Pg1,
                      <<Rel("VALUE", <<<<1, v>>>>), Rel("CHILD", <<<<1, "kw">>>>)>>)
        kw(t) == Blk(<<1, "kw">>, "WORD", t, {}, "", Pg1, <<>>)
        val(rels) == Blk(<<1, "v">>, "KEY_VALUE_SET", <<>>, {"VALUE"}, "", Pg1, rels)
        child == <<Rel("CHILD", <<<<1, "vw">>>>)>>
    IN  CASE kind = "none" -> <<>>
          [] kind = "date05" ->
               <<key("v"), kw(sDate), val(child),
                 Blk(<<1, "vw">>, "WORD", sWord05, {}, "", Pg1, <<>>)>>
          [] kind = "dateEmpty" -> <<key("v"), kw(sDate), val(<<>>)>>
          [] kind = "poChecked" ->
               <<key("v"), kw(sPO), val(child),
                 Blk(<<1, "vw">>, "SELECTION_ELEMENT", <<>>, {}, "SELECTED", Pg1, <<>>)>>
          [] kind = "dateGone" -> <<key("gone"), kw(sDate)>>

\* The LINE blocks of page 1.
FieldLines(kind) ==
    CASE kind = "none" -> <<>>
      [] kind = "date" -> <<PagedLine(Pg1, "l1", sLineDate)>>
      [] kind = "po" -> <<PagedLine(Pg1, "l1", sLinePO)>>
      [] kind = "both" -> <<PagedLine(Pg1, "l1", sLineDate), PagedLine(Pg1, "l2", sLinePO)>>

\* The blocks of page 2.
FieldOther(kind) ==
    CASE kind = "none" -> <<>>
      [] kind = "line" -> <<PagedLine(Pg2, "l1", sLinePO)>>

FieldDocs ==
    {FieldKv(k) \o FieldLines(l) \o FieldOther(o) :
        k \in {"none", "date05", "dateEmpty", "poChecked", "dateGone"},
        l \in {"none", "date", "po", "both"},
        o \in {"none", "line"}}

FieldNames == {sDate, sPO, sConstructor}
FieldLists == UNION {[1..n -> FieldNames] : n \in 0..MaxFields}

FieldsInit ==
    /\ fnArgs \in [blocks : FieldDocs, fieldsToExtract : FieldLists, pageId : {Pg1, Pg2}]
    /\ fnOut = <<>>
    /\ pc = "call"
    /\ error = "none"
    /\ results = <<>>
    /\ companyRecords = <<>>
    /\ MultiIdle
    /\ SingleIdle
    /\ StoreIdle
    /\ HandlerIdle

\* extractFields taking the field names off the list as it goes.
ArgsConsumed(args) == [args EXCEPT !.fieldsToExtract = <<>>]

\* extractFields assigns to neither of its arguments nor to any of their
\* elements, and to no variable outside the call.
ArgsAfterExtractFields(args) == args

CallExtractFields ==
    /\ pc = "call"
    /\ \E out \in {extractFields(fnArgs.blocks, fnArgs.fieldsToExtract)} :
         /\ fnOut' = [before |-> fnArgs, threw |-> out.threw, fields |-> out.fields]
         /\ error' = IF out.threw THEN "TypeError" ELSE "none"
    /\ fnArgs' = ArgsAfterExtractFields(fnArgs)
    /\ pc' = "once"
    /\ UNCHANGED <<storeVars, handlerVars, multiVars, singleVars, companyRecords, results>>

\* The same call made again by the same caller.
CallExtractFieldsAgain ==
    /\ pc = "once"
    /\ \E out \in {extractFields(fnArgs.blocks, fnArgs.fieldsToExtract)} :
         /\ fnOut' = [before |-> fnOut.before, threw |-> fnOut.threw, fields |-> fnOut.fields,
                      again |-> out]
         /\ error' = IF out.threw THEN "TypeError" ELSE "none"
    /\ fnArgs' = ArgsAfterExtractFields(fnArgs)
    /\ pc' = "twice"
    /\ UNCHANGED <<storeVars, handlerVars, multiVars, singleVars, companyRecords, results>>

CallExtractFieldsFromPage ==
    /\ pc = "call"
    /\ \E out \in {extractFieldsFromPage(fnArgs.blocks, fnArgs.pageId, fnArgs.fieldsToExtract)} :
         /\ fnOut' = [before |-> fnArgs, threw |-> out.threw, fields |-> out.fields]
         /\ error' = IF out.threw THEN "TypeError" ELSE "none"
    /\ pc' = "paged"
    /\ UNCHANGED <<storeVars, handlerVars, multiVars, singleVars, companyRecords, results, fnArgs>>

FieldsNext == CallExtractFields \/ CallExtractFieldsAgain \/ CallExtractFieldsFromPage

FieldsSpec == FieldsInit /\ [][FieldsNext]_vars

(***************************************************************************)
(* extractTableData of LocalFileProcessingAdvanced.js.                     *)
(* A Top or Left is in ten-thousandths of the page.                        *)
(***************************************************************************)
TBlk(type, text, top, left) == [BlockType |-> type, Text |-> text, Top |-> top, Left |-> left]

headers == <<<<"I","t","e","m"," ","N","o",".">>,
            <<"Q","u","a","n","t","i","t","y">>,
            <<"D","e","s","c","r","i","p","t","i","o","n","s">>,
            <<"U","n","i","t"," ","P","r","i","c","e">>,
            <<"A","m","o","u","n","t">>>>

Digits == {"0","1","2","3","4","5","6","7","8","9"}
UpperSet == {UpperChars[i] : i \in 1..Len(UpperChars)}
RegexSpace == {" ", "\t", "\n"}
Units == {<<"p","c","s">>, <<"p","l","s">>, <<"e","a">>, <<"u","n","i","t">>, <<"u","n","i","t","e","s">>, <<"u","n","i","t","s">>}

\* /^(\d+)\.$/
IsItemNo(text) ==
    /\ Len(text) >= 2
    /\ text[Len(text)] = "."
    /\ \A i \in 1..(Len(text) - 1) : text[i] \in Digits

\* The length of the longest prefix of text made of members of chars.
RECURSIVE PrefixLen(_, _)
PrefixLen(text, chars) ==
    IF text # <<>> /\ text[1] \in chars THEN 1 + PrefixLen(Tail(text), chars) ELSE 0

\* /^([\d,]+)\s+(PCS|PLS|EA|UNIT|UNITES|UNITS)$/i: <<>> when the text does not
\* match, else <<group 1, group 2>>.
QuantityMatch(text) ==
    LET n == PrefixLen(text, Digits \cup {","})
        rest == SubSeq(text, n + 1, Len(text))
        m == PrefixLen(rest, RegexSpace)
        unit == SubSeq(rest, m + 1, Len(rest))
    IN  IF n >= 1 /\ m >= 1 /\ toLowerCase(unit) \in Units
        THEN <<SubSeq(text, 1, n), unit>>
        ELSE <<>>

\* /^[A-Z]{2}\d+/, /^CODE\s/ and /^LOT\sNo/i
IsDescription(text) ==
    \/ /\ Len(text) >= 3
       /\ text[1] \in UpperSet /\ text[2] \in UpperSet /\ text[3] \in Digits
    \/ /\ Len(text) >= 5
       /\ SubSeq(text, 1, 4) = <<"C","O","D","E">> /\ text[5] \in RegexSpace
    \/ /\ Len(text) >= 6
       /\ toLowerCase(SubSeq(text, 1, 3)) = <<"l","o","t">> /\ text[4] \in RegexSpace
       /\ toLowerCase(SubSeq(text, 5, 6)) = <<"n","o">>

\* A header label recognised whatever its case.
IsHeaderBlockAnyCase(b, text) == b.BlockType = "LINE" /\ toLowerCase(b.Text) = toLowerCase(text)

\* block.BlockType === 'LINE' && block.Text === header.text
IsHeaderBlock(b, text) == b.BlockType = "LINE" /\ b.Text = text

\* headers.map(header => blocks.find(...)).filter(Boolean)
RECURSIVE HeaderBlocksFrom(_, _)
HeaderBlocksFrom(blocks, hs) ==
    IF hs = <<>> THEN <<>>
    ELSE (IF \E i \in 1..Len(blocks) : IsHeaderBlock(blocks[i], hs[1])
          THEN <<blocks[CHOOSE i \in 1..Len(blocks) :
                           /\ IsHeaderBlock(blocks[i], hs[1])
                           /\ \A j \in 1..(i - 1) : ~IsHeaderBlock(blocks[j], hs[1])]>>
          ELSE <<>>)
         \o HeaderBlocksFrom(blocks, Tail(hs))

headerBlocks(blocks) == HeaderBlocksFrom(blocks, headers)

\* Math.min over the tops of the header blocks.
tableTop(blocks) ==
    LET tops == {headerBlocks(blocks)[i].Top : i \in 1..Len(headerBlocks(blocks))}
    IN  CHOOSE m \in tops : \A x \in tops : m <= x

tableBottom == 9000

tableLines(blocks) ==
    LET InRegion(b) == /\ b.BlockType = "LINE"
                       /\ b.Top > tableTop(blocks)
                       /\ b.Top < tableBottom
    IN  SelectSeq(blocks, InRegion)

\* Math.round(top * 1000) / 1000, in thousandths.
RoundTop(top) == (top + 5) \div 10

\* The keys of lineGroups in the order of their first line.
RECURSIVE KeysInOrder(_, _)
KeysInOrder(lines, seen) ==
    IF lines = <<>> THEN <<>>
    ELSE IF RoundTop(lines[1].Top) \in seen THEN KeysInOrder(Tail(lines), seen)
    ELSE <<RoundTop(lines[1].Top)>>
         \o KeysInOrder(Tail(lines), seen \cup {RoundTop(lines[1].Top)})

\* Object.values(lineGroups): the key of a whole number ('0') comes first,
\* the others in the order of their first line; each group holds its lines
\* in the order of the blocks.
lineGroups(lines) ==
    LET keys == KeysInOrder(lines, {})
        Whole(y) == y % 1000 = 0
        Other(y) == y % 1000 # 0
        ordered == SelectSeq(keys, Whole) \o SelectSeq(keys, Other)
    IN  [g \in 1..Len(ordered) |->
            LET InGroup(b) == RoundTop(b.Top) = ordered[g] IN SelectSeq(lines, InGroup)]

\* group.sort((a, b) => a.Left - b.Left): stable.
RECURSIVE SortByLeft(_)
SortByLeft(group) ==
    IF group = <<>> THEN <<>>
    ELSE LET i == CHOOSE k \in 1..Len(group) :
                     /\ \A j \in 1..Len(group) : group[k].Left <= group[j].Left
                     /\ \A j \in 1..(k - 1) : group[j].Left > group[k].Left
         IN  <<group[i]>>
             \o SortByLeft(SubSeq(group, 1, i - 1) \o SubSeq(group, i + 1, Len(group)))

IsHeaderRow(group) ==
    \E i \in 1..Len(group) : \E h \in 1..Len(headers) : group[i].Text = headers[h]

NoItem == <<>>

\* NewItem with a unit price filled in.
NewItemPriced(number) ==
    [itemNo |-> number, quantity |-> <<>>, quantityUnit |-> <<>>, descriptions |-> <<>>,
     unitPrice |-> <<"1">>, amount |-> <<>>]

NewItem(number) ==
    [itemNo |-> number, quantity |-> <<>>, quantityUnit |-> <<>>, descriptions |-> <<>>,
     unitPrice |-> <<>>, amount |-> <<>>]

\* The final push dropped.
PushLastNever(items, currentItem) == items

\* if (currentItem) items.push(currentItem)
PushLast(items, currentItem) ==
    IF currentItem = NoItem THEN items ELSE Append(items, currentItem)

\* currentItem = { itemNo: itemNoMatch[1], ... }
StartItem(lineText) == NewItem(SubSeq(lineText, 1, Len(lineText) - 1))

\* The forEach over the groups: acc is [items, currentItem].
RECURSIVE ProcessGroups(_, _)
ProcessGroups(groups, acc) ==
    IF groups = <<>> THEN acc
    ELSE IF IsHeaderRow(groups[1]) THEN ProcessGroups(Tail(groups), acc)
    ELSE LET lineText == SortByLeft(groups[1])[1].Text
             cur == acc.currentItem
             q == QuantityMatch(lineText)
             next ==
                IF IsItemNo(lineText)
                THEN [items |-> IF cur = NoItem THEN acc.items ELSE Append(acc.items, cur),
                      currentItem |-> StartItem(lineText)]
                ELSE IF cur = NoItem THEN acc
                ELSE IF q # <<>>
                THEN [acc EXCEPT !.currentItem.quantity = q[1],
                                 !.currentItem.quantityUnit = toLowerCase(q[2])]
                ELSE IF IsDescription(lineText)
                THEN [acc EXCEPT !.currentItem.descriptions = Append(@, lineText)]
                ELSE acc
         IN  ProcessGroups(Tail(groups), next)

\* items.forEach: descriptions joined by one space, '' when there are none.
JoinDescriptions(items) ==
    [i \in 1..Len(items) |-> [items[i] EXCEPT !.descriptions = join(@, <<" ">>)]]

extractTableData(blocks) ==
    IF Len(headerBlocks(blocks)) = 0 THEN <<>>
    ELSE LET acc == ProcessGroups(lineGroups(tableLines(blocks)),
                                  [items |-> <<>>, currentItem |-> NoItem])
         IN  JoinDescriptions(PushLast(acc.items, acc.currentItem))

sItem1 == <<"1",".">>
sItem2 == <<"2",".">>
sQty1 == <<"2",",","0","0","0"," ","P","C","S">>
sQty2 == <<"5","0","0"," ","E","A">>
sCode == <<"F","G","0","2","4","4">>

RowTexts == {sItem1, sItem2, sQty1, sCode}
\* A line starts a row of its own, or sits in the row of the line before it,
\* to its right or to its left.
RowPlaces == {"new", "right", "left"}

\* The lines below the header: line i is 0.1 of the page below the row before
\* it, or 0.0002 below the line before it.
RECURSIVE BodyLines(_, _)
BodyLines(rows, n) ==
    IF n = 0 THEN <<>>
    ELSE LET before == BodyLines(rows, n - 1)
             top == IF n = 1 THEN 2000
                    ELSE IF rows[n].place = "new"
                         THEN ((before[n - 1].Top \div 1000) + 1) * 1000
                         ELSE before[n - 1].Top + 2
             left == CASE rows[n].place = "new" -> 1000
                       [] rows[n].place = "right" -> 1000 + 100 * n
                       [] rows[n].place = "left" -> 1000 - 100 * n
         IN  Append(before, TBlk("LINE", rows[n].text, top, left))

\* What stands above the lines: the labels 'Item No.' and 'Quantity' at top
\* 0.10; the label in lower case and a WORD block with a label; nothing.
HeaderLines(kind) ==
    CASE kind = "labels" ->
           <<TBlk("LINE", headers[1], 1000, 1000), TBlk("LINE", headers[2], 1000, 3000)>>
      [] kind = "lowercase" ->
           <<TBlk("LINE", toLowerCase(headers[1]), 1000, 1000),
             TBlk("WORD", headers[2], 1000, 3000)>>
      [] kind = "none" -> <<>>

HeaderKinds == {"labels", "lowercase", "none"}

\* The sample table: '1.', '2,000 PCS', '2.', '500 EA', each in a row of its
\* own, with a line above the header and a line below the table region.
SampleRows ==
    <<[text |-> sItem1, place |-> "new"], [text |-> sQty1, place |-> "new"],
      [text |-> sItem2, place |-> "new"], [text |-> sQty2, place |-> "new"]>>

SampleTable ==
    <<TBlk("LINE", sItem2, 500, 1000)>> \o HeaderLines("labels")
    \o BodyLines(SampleRows, 4) \o <<TBlk("LINE", sItem1, 9500, 1000)>>

\* The four rows of the sample table below the header, their LINE blocks
\* listed in every order.
ShuffledTables ==
    LET body == BodyLines(SampleRows, 4)
    IN  {HeaderLines("labels") \o [i \in 1..4 |-> body[p[i]]] : p \in Permutations(1..4)}

TableDocs ==
    {HeaderLines(h) \o BodyLines(rows, Len(rows)) :
        h \in HeaderKinds,
        rows \in UNION {[1..n -> [text : RowTexts, place : RowPlaces]] : n \in 0..MaxRows}}
    \cup {SampleTable}
    \cup ShuffledTables

TableInit ==
    /\ fnArgs \in [blocks : TableDocs]
    /\ fnOut = <<>>
    /\ pc = "call"
    /\ error = "none"
    /\ results = <<>>
    /\ companyRecords = <<>>
    /\ MultiIdle
    /\ SingleIdle
    /\ StoreIdle
    /\ HandlerIdle

CallExtractTableData ==
    /\ pc = "call"
    /\ fnOut' = [items |-> extractTableData(fnArgs.blocks)]
    /\ pc' = "returned"
    /\ UNCHANGED <<storeVars, handlerVars, multiVars, singleVars, companyRecords, error, results, fnArgs>>

TableNext == CallExtractTableData

TableSpec == TableInit /\ [][TableNext]_vars

(***************************************************************************)
(* storeResultsInTables.                                                   *)
(***************************************************************************)
TableLists == {Undefined, <<>>, <<"T1">>, <<"T1", "T2">>}

ResultOf(page, tables) ==
    [company |-> sAcme, pageNumber |-> page, extractedFields |-> EmptyMap,
     targetTables |-> tables]

StoreResults ==
    {[i \in 1..Len(tables) |-> ResultOf(i, tables[i])] :
        tables \in UNION {[1..n -> TableLists] : n \in 0..MaxResults}}

\* !result.targetTables || result.targetTables.length === 0
NoTargetTables(result) == result.targetTables = Undefined \/ result.targetTables = <<>>

\* Where the loops stand after the put of table t of result r.
NextPut(r, t, rs) == IF t < Len(rs[r].targetTables) THEN <<r, t + 1>> ELSE <<r + 1, 1>>

\* A failed put ending the whole operation.
AfterFailedPutAbort(r, t, rs) == <<Len(rs) + 1, 1>>

\* The catch is inside the inner loop: it logs and the loop goes on.
AfterFailedPut(r, t, rs) == NextPut(r, t, rs)

StoreInit ==
    /\ results \in StoreResults
    /\ puts = <<>>
    /\ resultAt = 1
    /\ tableAt = 1
    /\ pc = "storing"
    /\ error = "none"
    /\ companyRecords = <<>>
    /\ MultiIdle
    /\ SingleIdle
    /\ FnIdle
    /\ HandlerIdle

\* A result without target tables: a warning, then the next result.
StoreSkip ==
    /\ pc = "storing"
    /\ resultAt <= Len(results)
    /\ NoTargetTables(results[resultAt])
    /\ resultAt' = resultAt + 1
    /\ tableAt' = 1
    /\ UNCHANGED <<multiVars, singleVars, fnVars, handlerVars, companyRecords, pc, error,
                   results, puts>>

\* dynamodb.send(PutCommand) resolves.
StorePut ==
    /\ pc = "storing"
    /\ resultAt <= Len(results)
    /\ ~NoTargetTables(results[resultAt])
    /\ puts' = Append(puts, [result |-> resultAt,
                             table |-> results[resultAt].targetTables[tableAt],
                             pageNumber |-> results[resultAt].pageNumber,
                             ok |-> TRUE])
    /\ resultAt' = NextPut(resultAt, tableAt, results)[1]
    /\ tableAt' = NextPut(resultAt, tableAt, results)[2]
    /\ UNCHANGED <<multiVars, singleVars, fnVars, handlerVars, companyRecords, pc, error,
                   results>>

\* dynamodb.send(PutCommand) rejects: the catch logs the error.
StorePutFails ==
    /\ pc = "storing"
    /\ resultAt <= Len(results)
    /\ ~NoTargetTables(results[resultAt])
    /\ puts' = Append(puts, [result |-> resultAt,
                             table |-> results[resultAt].targetTables[tableAt],
                             pageNumber |-> results[resultAt].pageNumber,
                             ok |-> FALSE])
    /\ resultAt' = AfterFailedPut(resultAt, tableAt, results)[1]
    /\ tableAt' = AfterFailedPut(resultAt, tableAt, results)[2]
    /\ UNCHANGED <<multiVars, singleVars, fnVars, handlerVars, companyRecords, pc, error,
                   results>>

StoreReturn ==
    /\ pc = "storing"
    /\ resultAt > Len(results)
    /\ pc' = "stored"
    /\ UNCHANGED <<multiVars, singleVars, fnVars, handlerVars, storeVars, companyRecords,
                   error, results>>

StoreNext == StoreSkip \/ StorePut \/ StorePutFails \/ StoreReturn

StoreSpec == StoreInit /\ [][StoreNext]_vars

(***************************************************************************)
(* The Lambda handler of AMTTextractProcessorFunctionAdvanced.js.          *)
(***************************************************************************)
\* The events the handler can be invoked with: an S3 notification carrying
\* one record, or an event without Records.
Events == {"s3-record", "no-records"}

\* `s3://${s3Location.bucket}/${s3Location.key}` of the record of the event.
sDocumentId == "s3://bucket/key"

\* The scripts of the provider in a run of the handler.
HandlerBatches == 1
HandlerScripts == {scr \in Scripts : Len(scr) <= HandlerBatches}

\* parseInt gives NaN for a text that starts with no digit; every comparison
\* with NaN is false, as is every comparison of NaNValue with 1.
NaNValue == -1

DigitChars == <<"0", "1", "2", "3", "4", "5", "6", "7", "8", "9">>

DigitValue(c) == (CHOOSE i \in 1..10 : DigitChars[i] = c) - 1

\* parseInt(text) of a text without sign or leading space: the number its
\* leading digits write, NaN when it has none.
RECURSIVE ParseDigits(_, _, _)
ParseDigits(text, i, acc) ==
    IF i > Len(text) \/ text[i] \notin Digits THEN acc
    ELSE ParseDigits(text, i + 1, acc * 10 + DigitValue(text[i]))

parseInt(text) ==
    IF Len(text) = 0 \/ text[1] \notin Digits THEN NaNValue
    ELSE ParseDigits(text, 1, 0)

\* What HeadObject can answer: it raises, or it returns with the metadata
\* entry x-amz-meta-page-count absent, empty, not a number, or a number.
MetadataValues ==
    {Undefined, <<>>, <<"x">>} \cup {<<DigitChars[n + 1]>> : n \in 0..MaxPages}

HeadOutcomes ==
    {[threw |-> TRUE, value |-> Undefined]} \cup
    {[threw |-> FALSE, value |-> v] : v \in MetadataValues}

\* What the LAYOUT analysis can answer: it raises, or its Blocks hold so many
\* PAGE blocks.
LayoutOutcomes ==
    {[threw |-> TRUE, pages |-> 0]} \cup
    {[threw |-> FALSE, pages |-> n] : n \in 0..MaxPages}

\* The analysis is not called when the metadata gave the count or HeadObject
\* raised.
NotCalled == [threw |-> FALSE, pages |-> -1]

FromMetadata(head) == ~head.threw /\ head.value # Undefined /\ Truthy(head.value)

\* getPageCount with a catch that returns 0.
getPageCountZeroOnFailure(head, layout) ==
    IF head.threw THEN 0
    ELSE IF FromMetadata(head) THEN parseInt(head.value)
    ELSE IF layout.threw THEN 0
    ELSE layout.pages

\* getPageCount: the count of the metadata, else the number of PAGE blocks,
\* and 1 from the catch.
getPageCount(head, layout) ==
    IF head.threw THEN 1
    ELSE IF FromMetadata(head) THEN parseInt(head.value)
    ELSE IF layout.threw THEN 1
    ELSE layout.pages

\* const isMultiPage = pageCount > 1
isMultiPage(n) == n > 1

\* document: s3Location ? `s3://...` : 'unknown', with the test dropped.
DocumentOfUnknown(located) == "unknown"

\* document: s3Location ? `s3://${s3Location.bucket}/${s3Location.key}` : 'unknown'
DocumentOf(located) == IF located THEN sDocumentId ELSE "unknown"

\* The body of the SUCCESS response with resultsCount a constant.
SuccessBodyNoCount(n, processingResults) ==
    [pageCount |-> n, resultsCount |-> 0, results |-> processingResults]

\* The body of the SUCCESS response, its status apart.
SuccessBody(n, processingResults) ==
    [pageCount |-> n,
     resultsCount |-> Len(processingResults),
     results |-> processingResults]

\* The body of the ERROR response, its status and message apart.
ErrorBody(message, located) ==
    [error |-> message, document |-> DocumentOf(located)]

HandlerInit ==
    /\ pc = "invoked"
    /\ event \in Events
    /\ pageCount = 0
    /\ probe = <<>>
    /\ statusCode = 0
    /\ handlerStatus = "none"
    /\ responseBody = <<>>
    /\ results = <<>>
    /\ error = "none"
    /\ companyRecords = <<>>
    /\ MultiIdle
    /\ SingleIdle
    /\ FnIdle
    /\ StoreIdle

\* event.Records[0] of an event without Records: the TypeError is caught
\* before s3Location is assigned, and the catch returns the ERROR response.
MalformedEvent ==
    /\ pc = "invoked"
    /\ event = "no-records"
    /\ error' = "TypeError"
    /\ statusCode' = 500
    /\ handlerStatus' = "ERROR"
    /\ responseBody' = ErrorBody("TypeError", FALSE)
    /\ pc' = "returned"
    /\ UNCHANGED <<multiVars, singleVars, fnVars, storeVars, companyRecords, results,
                   pageCount, event, probe>>

\* Step 1: await getPageCount.  A multi-page document goes on to step 2; for
\* any other count step 3 calls processSinglePageDocument, which awaits
\* analyzeDocument.
GetPageCount ==
    /\ pc = "invoked"
    /\ event = "s3-record"
    /\ \E head \in HeadOutcomes :
         \E layout \in IF head.threw \/ FromMetadata(head)
                       THEN {NotCalled} ELSE LayoutOutcomes :
           /\ probe' = [head |-> head, layout |-> layout]
           /\ pageCount' = getPageCount(head, layout)
           /\ IF isMultiPage(getPageCount(head, layout))
              THEN /\ pc' = "loading"
                   /\ UNCHANGED <<companyRecords, document>>
              ELSE /\ pc' = "analyze"
                   /\ document' \in SingleDocs
                   /\ companyRecords' \in SingleRegistries
    /\ UNCHANGED <<multiVars, fnVars, storeVars, error, results, company, fieldsToExtract,
                   extractionResults, lookup, calls, event, statusCode, handlerStatus, responseBody>>

\* Step 2, multi-page only: await getAllCompanyRecords; step 3 then calls
\* processMultiPageDocument, which awaits startAsyncTextractJob.
LoadCompanyRecords ==
    /\ pc = "loading"
    /\ companyRecords' \in Registries
    /\ script' \in HandlerScripts
    /\ pc' = "submit"
    /\ UNCHANGED <<singleVars, fnVars, storeVars, handlerVars, error, results, served, jobId,
                   issuedJobId, nextToken, currentPage, finished, requests, responses,
                   pagesSeen>>

\* getAllCompanyRecords rejects: the catch returns the ERROR response.
LoadCompanyRecordsFails ==
    /\ pc = "loading"
    /\ error' = "ProviderError"
    /\ statusCode' = 500
    /\ handlerStatus' = "ERROR"
    /\ responseBody' = ErrorBody("ProviderError", TRUE)
    /\ pc' = "returned"
    /\ UNCHANGED <<multiVars, singleVars, fnVars, storeVars, companyRecords, results,
                   pageCount, event, probe>>

\* Step 3: the processor has returned its results; the handler builds the
\* SUCCESS response from them and returns it.
ProcessDocument ==
    /\ pc = "done"
    /\ statusCode' = 200
    /\ handlerStatus' = "SUCCESS"
    /\ responseBody' = SuccessBody(pageCount, results)
    /\ pc' = "returned"
    /\ UNCHANGED <<multiVars, singleVars, fnVars, storeVars, companyRecords, error, results,
                   pageCount, event, probe>>

\* The processor rejects: the catch returns the ERROR response.
ProcessDocumentFails ==
    /\ pc = "failed"
    /\ statusCode' = 500
    /\ handlerStatus' = "ERROR"
    /\ responseBody' = ErrorBody(error, TRUE)
    /\ pc' = "returned"
    /\ UNCHANGED <<multiVars, singleVars, fnVars, storeVars, companyRecords, error, results,
                   pageCount, event, probe>>

HandlerNext ==
    \/ MalformedEvent \/ GetPageCount
    \/ LoadCompanyRecords \/ LoadCompanyRecordsFails
    \/ ProcessDocument \/ ProcessDocumentFails
    \/ Analyze \/ AnalyzeFails \/ Identify \/ IdentifyFails \/ Tables
    \/ Submit \/ SubmitFails \/ PollRequest \/ PollFails \/ PollResponse

HandlerSpec == HandlerInit /\ [][HandlerNext]_vars

(***************************************************************************)
(* The extraction of one page, from two batches that hold the same blocks  *)
(* of that page and differ in the blocks of the other page.                *)
(***************************************************************************)
\* The lines of page 1.
OwnLines(kind) ==
    IF kind = "acme"
    THEN <<PagedLine(Pg1, "l1", sLineAcme), PagedLine(Pg1, "l2", sLinePO)>>
    ELSE FieldLines(kind)

OwnDocs ==
    {FieldKv(k) \o OwnLines(l) :
        k \in {"none", "date05", "dateEmpty", "dateGone"},
        l \in {"none", "date", "both", "acme"}}

\* The blocks of page 2: none; a line that gives a Date; a key 'Date:' with
\* the value 'x'; a key whose VALUE id resolves to no block.
OtherPage(kind) ==
    LET key(v) == Blk(<<2, "k">>, "KEY_VALUE_SET", <<>>, {"KEY"}, "", Pg2,
                      <<Rel("VALUE", <<<<2, v>>>>), Rel("CHILD", <<<<2, "kw">>>>)>>)
        kw == Blk(<<2, "kw">>, "WORD", sDate, {}, "", Pg2, <<>>)
        val == Blk(<<2, "v">>, "KEY_VALUE_SET", <<>>, {"VALUE"}, "", Pg2,
                   <<Rel("CHILD", <<<<2, "vw">>>>)>>)
    IN  CASE kind = "none" -> <<>>
          [] kind = "line" -> <<PagedLine(Pg2, "l1", sLineDateUpper)>>
          [] kind = "kv" -> <<key("v"), kw, val,
                              Blk(<<2, "vw">>, "WORD", sX, {}, "", Pg2, <<>>)>>
          [] kind = "dangling" -> <<key("gone"), kw>>

OtherKinds == {"none", "line", "kv", "dangling"}

\* A batch: the blocks of page 1 with those of page 2 before or after them.
Batch(own, kind, place) ==
    IF place = "before" THEN OtherPage(kind) \o own ELSE own \o OtherPage(kind)

\* What processMultiPageDocument gets for page 1 of a batch: the text of the
\* page, the fields extracted for a list of names, and the outcome of the
\* iteration of the loop over the pages, with the registry Acme, Acme Corp.
PageOutcome(blocks, fieldNames) ==
    [text |-> extractTextFromPage(blocks, Pg1),
     extracted |-> extractFieldsFromPage(blocks, Pg1, fieldNames),
     iteration |-> ProcessPage(blocks, Blk(Pg1, "PAGE", <<>>, {}, "", NoPage, <<>>),
                               <<RecAcme, RecAcmeCorp>>,
                               [results |-> <<>>, currentPage |-> 1,
                                seen |-> <<>>, threw |-> FALSE])]

PagesInit ==
    /\ \E own \in OwnDocs :
         \E k1, k2 \in OtherKinds :
           \E p1, p2 \in {"before", "after"} :
             \E fields \in FieldLists :
               fnArgs = [own |-> own,
                         blocks |-> Batch(own, k1, p1),
                         otherBlocks |-> Batch(own, k2, p2),
                         fieldsToExtract |-> fields]
    /\ fnOut = <<>>
    /\ pc = "call"
    /\ error = "none"
    /\ results = <<>>
    /\ companyRecords = <<>>
    /\ MultiIdle
    /\ SingleIdle
    /\ StoreIdle
    /\ HandlerIdle

\* Page 1 is extracted from each of the two batches.
CallOnBothBatches ==
    /\ pc = "call"
    /\ fnOut' = [first |-> PageOutcome(fnArgs.blocks, fnArgs.fieldsToExtract),
                 second |-> PageOutcome(fnArgs.otherBlocks, fnArgs.fieldsToExtract)]
    /\ pc' = "compared"
    /\ UNCHANGED <<storeVars, handlerVars, multiVars, singleVars, companyRecords, error,
                   results, fnArgs>>

PagesNext == CallOnBothBatches

PagesSpec == PagesInit /\ [][PagesNext]_vars

Polls == Len(requests)

(***************************************************************************)
(* Properties of processMultiPageDocument.                                 *)
(***************************************************************************)
LastResponse == responses[Len(responses)]

\* The page text names some company of the registry.
Names(text) ==
    \E i \in 1..Len(companyRecords) :
        includes(toLowerCase(text), toLowerCase(companyRecords[i].company))

\* The pages whose iteration ran to its end.
PagesCompleted == Len(pagesSeen) - (IF error = "TypeError" THEN 1 ELSE 0)

\* The positions, among the pages seen, of the completed pages that name a company.
MatchedPages == {k \in 1..PagesCompleted : Names(pagesSeen[k])}

RECURSIVE CountPages(_, _)
CountPages(scr, n) ==
    IF n = 0 THEN 0
    ELSE Len(SelectSeq(Blocks(scr[n]), IsPage)) + CountPages(scr, n - 1)

\* Every batch but the last has a cursor and is IN_PROGRESS; the last has no
\* cursor and is SUCCEEDED.
PaginatedToSuccess(scr) ==
    /\ \A i \in 1..(Len(scr) - 1) :
          scr[i].NextToken # NoToken /\ scr[i].JobStatus = "IN_PROGRESS"
    /\ scr[Len(scr)].NextToken = NoToken
    /\ scr[Len(scr)].JobStatus = "SUCCEEDED"

\* The results of each batch, the page counter running on, one after the other.
RECURSIVE BatchResultsInOrder(_, _, _)
BatchResultsInOrder(scr, records, firstPage) ==
    IF scr = <<>> THEN <<>>
    ELSE LET st == ProcessPages(Blocks(scr[1]), SelectSeq(Blocks(scr[1]), IsPage), records,
                                [results |-> <<>>, currentPage |-> firstPage,
                                 seen |-> <<>>, threw |-> FALSE])
         IN  st.results \o BatchResultsInOrder(Tail(scr), records, st.currentPage)

\* Every id a relationship of the batch lists is the id of a block of the batch.
Resolves(blocks) ==
    \A i \in 1..Len(blocks) :
        \A r \in 1..Len(blocks[i].Relationships) :
            \A k \in 1..Len(blocks[i].Relationships[r].Ids) :
                \E j \in 1..Len(blocks) : blocks[j].Id = blocks[i].Relationships[r].Ids[k]

\* C1: once a poll response has been processed, the loop has ended if and only
\* if that response has no continuation cursor AND its status is not
\* IN_PROGRESS; otherwise the orchestrator is about to poll again.
C1_EndsIffNoCursorAndNotInProgress ==
    (pc \in {"poll", "done"} /\ responses # <<>>) =>
        (pc = "done" <=> (/\ LastResponse.NextToken = NoToken
                          /\ LastResponse.JobStatus # "IN_PROGRESS"))

\* C2: when the provider answers the polls with n batches, all but the last
\* with a cursor and IN_PROGRESS and the last with no cursor and SUCCEEDED, the
\* operation ends by returning, after exactly n polls, the results of the
\* batches one after the other.
C2_PaginatedReturnsAfterNPolls ==
    (PaginatedToSuccess(script) /\ error # "ProviderError" /\ pc \in {"done", "failed"}) =>
        /\ pc = "done"
        /\ Polls = Len(script)
        /\ results = BatchResultsInOrder(script, companyRecords, 1)

\* The statement of C2 on the scripts whose batches resolve every id: the
\* run that ends otherwise is the one in which extractKeyValuePairs raises.
PaginatedReturnsWhenIdsResolve ==
    (/\ PaginatedToSuccess(script)
     /\ \A i \in 1..Len(script) : Resolves(Blocks(script[i]))
     /\ error # "ProviderError" /\ pc \in {"done", "failed"}) =>
        /\ pc = "done"
        /\ Polls = Len(script)
        /\ results = BatchResultsInOrder(script, companyRecords, 1)

\* C3: whatever the provider answers, the operation eventually stops polling:
\* it returns or fails.
C3_PollingStops == <>(pc \in {"done", "failed"})

\* C4: every poll carries the JobId the submission returned; the first poll
\* carries no cursor and every later one the NextToken of the response just
\* before it.
C4_CursorThreaded ==
    \A i \in 1..Len(requests) :
        /\ requests[i].JobId = issuedJobId
        /\ requests[i].NextToken = IF i = 1 THEN NoToken ELSE responses[i - 1].NextToken

C4_Witness ==
    /\ Len(requests) >= 3
    /\ requests[2].NextToken = "t1"
    /\ requests[3].NextToken = "t2"

\* C5: currentPage is one more than the number of PAGE blocks processed so far
\* over all batches, and the i-th result carries the position of the i-th
\* page that named a company, counted over all pages whether matched or not.
C5_RunningPageCounter ==
    /\ currentPage = PagesCompleted + 1
    /\ Len(results) = Cardinality(MatchedPages)
    /\ \A i \in 1..Len(results) :
          /\ results[i].pageNumber \in MatchedPages
          /\ Cardinality({k \in MatchedPages : k < results[i].pageNumber}) = i - 1

C5_Witness ==
    /\ Len(requests) = 2
    /\ Len(pagesSeen) = 4
    /\ ~Names(pagesSeen[3])
    /\ Len(results) = 2
    /\ results[1].pageNumber = 2
    /\ results[2].pageNumber = 4

\* C6: a page that names no company adds no result and raises nothing, the
\* pages and batches after it are still processed, and the results returned
\* are one per page that named a company.
C6_NoMatchSkipped ==
    /\ error = "TypeError" => Names(pagesSeen[Len(pagesSeen)])
    /\ \A k \in 1..Len(pagesSeen) :
          ~Names(pagesSeen[k]) => \A i \in 1..Len(results) : results[i].pageNumber # k
    /\ error # "TypeError" => Len(pagesSeen) = CountPages(script, served)
    /\ pc = "done" =>
          \A k \in 1..Len(pagesSeen) :
              Names(pagesSeen[k]) =>
                  Cardinality({i \in 1..Len(results) : results[i].pageNumber = k}) = 1

C6_Witness ==
    /\ pc = "done"
    /\ Len(requests) = 2
    /\ Len(pagesSeen) = 4
    /\ ~Names(pagesSeen[1])
    /\ ~Names(pagesSeen[3])
    /\ Len(results) = 2

(***************************************************************************)
(* Properties of processSinglePageDocument.                                *)
(***************************************************************************)
Made(call) == \E i \in 1..Len(calls) : calls[i] = call

\* The records whose name occurs in the text, case ignored, as positions.
NamedAt(text) ==
    {i \in 1..Len(companyRecords) :
        includes(toLowerCase(text), toLowerCase(companyRecords[i].company))}

FirstNamed(text) ==
    companyRecords[CHOOSE i \in NamedAt(text) : \A j \in NamedAt(text) : i <= j]

\* C7: when no company of the registry occurs in the document text, the
\* operation fails with the company-not-recognized error, returns no result,
\* and neither extracts fields nor looks up target tables.
C7_NoCompanyIsFatal ==
    NamedAt(DocumentText) = {} =>
        /\ results = <<>>
        /\ pc \notin {"tables", "done"}
        /\ ~Made("extractFields")
        /\ ~Made("getTargetTablesForCompany")
        /\ (Made("getAllCompanyRecords") /\ error # "ProviderError") =>
              (pc = "failed" /\ error = "CompanyNotRecognized")

C7_Witness ==
    /\ companyRecords # <<>>
    /\ NamedAt(DocumentText) = {}
    /\ pc = "failed"
    /\ error = "CompanyNotRecognized"

\* What C8 says the operation returns.
TheOneResult ==
    /\ pc = "done"
    /\ Len(results) = 1
    /\ results[1].pageNumber = 1
    /\ results[1].company = FirstNamed(DocumentText).company
    /\ DOMAIN results[1].extractedFields =
          {FirstNamed(DocumentText).fields[i] : i \in 1..Len(FirstNamed(DocumentText).fields)}
    /\ results[1].targetTables =
          IF lookup = "item" /\ FirstNamed(DocumentText).targetTables # Undefined
          THEN FirstNamed(DocumentText).targetTables ELSE <<>>

\* C8: when a company is identified the operation returns exactly one result,
\* of page 1, for the first record named, with an entry for each of its
\* configured fields and the target tables the lookup gave ([] when it gave
\* none or failed).
C8_IdentifiedReturnsOneResult ==
    (NamedAt(DocumentText) # {} /\ error # "ProviderError" /\ pc \in {"done", "failed"})
        => TheOneResult

\* The statement of C8 on the documents that resolve every id.
IdentifiedReturnsWhenIdsResolve ==
    (/\ NamedAt(DocumentText) # {} /\ Resolves(BatchBlocks(document))
     /\ error # "ProviderError" /\ pc \in {"done", "failed"})
        => TheOneResult

(***************************************************************************)
(* Properties of company identification.                                   *)
(***************************************************************************)
\* The name occurs in the text, case ignored: the text is some prefix, the
\* name, and some suffix.
Occurs(name, text) ==
    \E i \in 0..Len(text) : \E j \in i..Len(text) :
        toLowerCase(SubSeq(text, i + 1, j)) = toLowerCase(name)

\* The position of the first record of the registry whose name occurs, 0 if none.
FirstOccurring(text, records) ==
    IF \E i \in 1..Len(records) : Occurs(records[i].company, text)
    THEN CHOOSE i \in 1..Len(records) :
            /\ Occurs(records[i].company, text)
            /\ \A j \in 1..(i - 1) : ~Occurs(records[j].company, text)
    ELSE 0

\* C9: both identification functions return the first record, in registry
\* order, whose name occurs in the text with case ignored, whatever the length
\* or the position of the match, and the no-match value when none occurs.
C9_FirstInRegistryOrder ==
    LET first == FirstOccurring(fnArgs.text, fnArgs.records)
    IN  /\ pc = "found" =>
              fnOut = IF first = 0 THEN NoRecord ELSE fnArgs.records[first]
        /\ pc = "identified" =>
              fnOut = IF first = 0
                      THEN [company |-> Null, fieldsToExtract |-> <<>>]
                      ELSE [company |-> fnArgs.records[first].company,
                            fieldsToExtract |-> fnArgs.records[first].fields]

\* Registry [Acme, Acme Corp], text 'acme corp invoice': both names occur and
\* Acme is returned.
C9_Witness ==
    /\ pc = "found"
    /\ fnArgs.text = sInvoice
    /\ fnArgs.records = <<RecAcme, RecAcmeCorp>>
    /\ Occurs(sAcmeCorp, fnArgs.text)
    /\ fnOut.company = sAcme

(***************************************************************************)
(* Properties of extractKeyValuePairs.                                     *)
(***************************************************************************)
KeyBlocksOf(blocks) == SelectSeq(blocks, IsKeyBlock)

Ids(blocks) == {blocks[i].Id : i \in 1..Len(blocks)}

ValueIds(blocks) == {blocks[i].Id : i \in {k \in 1..Len(blocks) : IsValueBlock(blocks[k])}}

\* The key block's VALUE relationship lists an id that is no value block.
DanglingValue(kb, blocks) ==
    \E k \in 1..Len(RelIds(kb.Relationships, "VALUE")) :
        RelIds(kb.Relationships, "VALUE")[k] \notin ValueIds(blocks)

\* Every CHILD id of every block is the id of a block of the input.
ChildrenResolve(blocks) ==
    \A i \in 1..Len(blocks) :
        \A k \in 1..Len(RelIds(blocks[i].Relationships, "CHILD")) :
            RelIds(blocks[i].Relationships, "CHILD")[k] \in Ids(blocks)

KeyText(kb, blocks) == getTextForBlock(kb, IdMap(blocks, "blockMap"))

\* C10: a key block whose VALUE id is not among the value blocks is skipped:
\* the call raises nothing, adds no entry for that key, and maps the other
\* keys.
C10_DanglingValueSkipped ==
    LET blocks == fnArgs.blocks
        keys == KeyBlocksOf(blocks)
        dangles(i) == DanglingValue(keys[i], blocks)
    IN  (/\ pc = "returned"
         /\ ChildrenResolve(blocks)
         /\ \E i \in 1..Len(keys) : dangles(i)) =>
            /\ ~fnOut.threw
            /\ \A i \in 1..Len(keys) :
                  IF dangles(i)
                  THEN (\A j \in 1..Len(keys) :
                           KeyText(keys[j], blocks) = KeyText(keys[i], blocks) => dangles(j))
                       => KeyText(keys[i], blocks) \notin DOMAIN fnOut.kv
                  ELSE KeyText(keys[i], blocks) \in DOMAIN fnOut.kv

\* extractKeyValuePairs raises nothing when every id of the input resolves.
ReturnsWhenIdsResolve ==
    (/\ pc = "returned"
     /\ ChildrenResolve(fnArgs.blocks)
     /\ \A i \in 1..Len(KeyBlocksOf(fnArgs.blocks)) :
           ~DanglingValue(KeyBlocksOf(fnArgs.blocks)[i], fnArgs.blocks))
        => ~fnOut.threw

(***************************************************************************)
(* Properties of getTextForBlock.                                          *)
(***************************************************************************)
\* The blocks that the ids resolve to, in the order of the ids, an id that is
\* no block of the input left out.
RECURSIVE Resolvable(_, _)
Resolvable(ids, blocks) ==
    IF ids = <<>> THEN <<>>
    ELSE (IF ids[1] \in Ids(blocks)
          THEN <<IdMap(blocks, "blockMap")[ids[1]]>> ELSE <<>>)
         \o Resolvable(Tail(ids), blocks)

Checked == <<"[", "X", "]">>
Unchecked == <<"[", " ", "]">>

TokenOf(child) ==
    IF child.BlockType = "WORD" THEN child.Text
    ELSE IF child.SelectionStatus = "SELECTED" THEN Checked ELSE Unchecked

\* The tokens of the children, in order, a single space between neighbours.
RECURSIVE SpacedTokens(_)
SpacedTokens(children) ==
    IF children = <<>> THEN <<>>
    ELSE LET front == SubSeq(children, 1, Len(children) - 1)
         IN  (IF front = <<>> THEN <<>> ELSE SpacedTokens(front) \o <<" ">>)
             \o TokenOf(children[Len(children)])

ChildIds(block) == RelIds(block.Relationships, "CHILD")

HasUnresolvedChild(block, blocks) ==
    \E k \in 1..Len(ChildIds(block)) : ChildIds(block)[k] \notin Ids(blocks)

\* C11: getTextForBlock on a block whose CHILD relationship lists an id that
\* is no block of the input raises nothing: it leaves that id out and returns
\* the text of the children that resolve.
C11_UnresolvedChildSkipped ==
    (pc = "text" /\ HasUnresolvedChild(fnOut.block, fnArgs.blocks)) =>
        /\ fnOut.text # Thrown
        /\ fnOut.text = SpacedTokens(Resolvable(ChildIds(fnOut.block), fnArgs.blocks))

\* getTextForBlock returns the spaced tokens when every CHILD id resolves.
TextWhenChildrenResolve ==
    (pc = "text" /\ ~HasUnresolvedChild(fnOut.block, fnArgs.blocks)) =>
        fnOut.text = SpacedTokens(Resolvable(ChildIds(fnOut.block), fnArgs.blocks))

\* Every VALUE id of a key block is a value block of the input and every
\* CHILD id is a block of the input.
WellFormed(blocks) ==
    /\ ChildrenResolve(blocks)
    /\ \A i \in 1..Len(KeyBlocksOf(blocks)) : ~DanglingValue(KeyBlocksOf(blocks)[i], blocks)

\* The children of the value block of a key block with one VALUE id.
ValueChildren(kb, blocks) ==
    Resolvable(ChildIds(IdMap(blocks, "valueMap")[RelIds(kb.Relationships, "VALUE")[1]]),
               blocks)

\* No key block after the i-th has the same key text.
LastWithItsText(i, blocks) ==
    \A j \in (i + 1)..Len(KeyBlocksOf(blocks)) :
        KeyText(KeyBlocksOf(blocks)[j], blocks) # KeyText(KeyBlocksOf(blocks)[i], blocks)

\* C12: a key whose value block has one SELECTION_ELEMENT child is mapped to
\* '[X]' when the element is SELECTED and to '[ ]' otherwise; with several
\* children the key is mapped to their tokens in relationship order, one space
\* between neighbours.
C12_SelectionTokens ==
    LET blocks == fnArgs.blocks
        keys == KeyBlocksOf(blocks)
    IN  (pc = "returned" /\ WellFormed(blocks)) =>
            /\ ~fnOut.threw
            /\ \A i \in 1..Len(keys) :
                  LastWithItsText(i, blocks) =>
                     LET kids == ValueChildren(keys[i], blocks)
                         text == fnOut.kv[KeyText(keys[i], blocks)]
                     IN  /\ (Len(kids) = 1 /\ kids[1].BlockType = "SELECTION_ELEMENT") =>
                               text = IF kids[1].SelectionStatus = "SELECTED"
                                      THEN Checked ELSE Unchecked
                         /\ Len(kids) > 1 => text = SpacedTokens(kids)

\* One key whose value has the single child SELECTED: mapped to '[X]'.
C12_Witness ==
    /\ pc = "returned"
    /\ fnArgs.blocks = KvChildrenDoc(<<"selected">>)
    /\ fnOut.kv[sDate] = <<"[", "X", "]">>

\* Three children, a word and two selection elements: '05 [ ] [X]'.
SeveralChildrenReached ==
    /\ pc = "returned"
    /\ fnArgs.blocks = KvChildrenDoc(<<"word05", "unselected", "selected">>)
    /\ fnOut.kv[sDate] = <<"0", "5", " ", "[", " ", "]", " ", "[", "X", "]">>

\* C13: when two key blocks resolve to the same key text, the key is mapped to
\* the value of the one that is later in the order of the blocks, and nothing
\* is raised.
C13_LastWriteWins ==
    LET blocks == fnArgs.blocks
        keys == KeyBlocksOf(blocks)
    IN  (/\ pc = "returned"
         /\ WellFormed(blocks)
         /\ \E i, j \in 1..Len(keys) :
               i < j /\ KeyText(keys[i], blocks) = KeyText(keys[j], blocks)) =>
            /\ ~fnOut.threw
            /\ \A i, j \in 1..Len(keys) :
                  (/\ i < j
                   /\ KeyText(keys[i], blocks) = KeyText(keys[j], blocks)
                   /\ LastWithItsText(j, blocks)) =>
                     fnOut.kv[KeyText(keys[j], blocks)]
                        = SpacedTokens(ValueChildren(keys[j], blocks))

\* Two keys 'PO', the first with value '05', the second with value '[X]':
\* 'PO' is mapped to '[X]'.
C13_Witness ==
    /\ pc = "returned"
    /\ fnArgs.blocks = KvKey(1, sPO, <<1, "v">>) \o KvKey(2, sPO, <<2, "v">>)
                         \o KvValue(1, "word") \o KvValue(2, "selected")
    /\ fnOut.kv[sPO] = Checked
    /\ fnOut.kv[sPO] # SpacedTokens(ValueChildren(KeyBlocksOf(fnArgs.blocks)[1], fnArgs.blocks))

(***************************************************************************)
(* Properties of extractFieldByPattern.                                    *)
(***************************************************************************)
HasSeparator(line) == \E k \in 1..Len(line) : line[k] \in Separators

FirstSeparator(line) ==
    CHOOSE k \in 1..Len(line) :
        line[k] \in Separators /\ \A j \in 1..(k - 1) : line[j] \notin Separators

\* The line contains the field name, case ignored, and a separator.
PatternLine(line, fieldName) ==
    includes(toLowerCase(line), toLowerCase(fieldName)) /\ HasSeparator(line)

\* The trimmed text after the first separator of the first line of the text
\* that contains the field name and a separator; Null when there is none.
AfterFirstSeparator(text, fieldName) ==
    LET lines == split(text, {"\n"})
    IN  IF \E i \in 1..Len(lines) : PatternLine(lines[i], fieldName)
        THEN LET i == CHOOSE k \in 1..Len(lines) :
                         /\ PatternLine(lines[k], fieldName)
                         /\ \A j \in 1..(k - 1) : ~PatternLine(lines[j], fieldName)
             IN  trim(SubSeq(lines[i], FirstSeparator(lines[i]) + 1, Len(lines[i])))
        ELSE Null

\* C14: extractFieldByPattern returns the trimmed text that follows the first
\* ':', '-' or '=' of the first line that contains the field name (case
\* ignored) and a separator, '2024-01-05' for the line 'Date: 2024-01-05' and
\* the field 'Date:', and null when no line matches.
C14_TextAfterFirstSeparator ==
    pc = "returned" =>
        fnOut.value = AfterFirstSeparator(extractText(fnArgs.blocks), fnArgs.fieldName)

\* The same with the case of the returned text ignored.
TextAfterFirstSeparatorLowered ==
    pc = "returned" =>
        LET claimed == AfterFirstSeparator(extractText(fnArgs.blocks), fnArgs.fieldName)
        IN  fnOut.value = IF claimed = Null THEN Null ELSE toLowerCase(claimed)

\* What the code returns for the line 'Date: 2024-01-05' and the field 'Date:'.
DateExampleReached ==
    /\ pc = "returned"
    /\ fnArgs.blocks = <<LineBlock(1, sLineDate)>>
    /\ fnArgs.fieldName = sDate
    /\ fnOut.value = <<"2","0","2","4",":","0","1",":","0","5">>

\* null exactly when no line contains the field name and a separator.
NullIffNoPatternLine ==
    pc = "returned" =>
        (fnOut.value = Null <=>
            AfterFirstSeparator(extractText(fnArgs.blocks), fnArgs.fieldName) = Null)

(***************************************************************************)
(* Properties of extractFields and extractFieldsFromPage.                  *)
(***************************************************************************)
\* The blocks that belong to the page: its id is their Page or is listed in
\* one of their relationships.
OnPage(blocks, pageId) ==
    LET Belongs(b) == b.Page = pageId \/ SomeRelIncludes(b, pageId)
    IN  SelectSeq(blocks, Belongs)

\* The blocks the call of the current state worked on.
Searched ==
    IF pc = "paged" THEN OnPage(fnArgs.blocks, fnArgs.pageId) ELSE fnArgs.blocks

Requested == {fnArgs.fieldsToExtract[i] : i \in 1..Len(fnArgs.fieldsToExtract)}

\* The value of the key-value mapping when the field is a key of it with a
\* non-empty value, else the pattern value, null when no line matches.
MappingThenPattern(blocks, field) ==
    LET kv == extractKeyValuePairs(blocks).kv
    IN  IF field \in DOMAIN kv /\ kv[field] # <<>>
        THEN kv[field]
        ELSE extractFieldByPattern(blocks, field)

\* C15: extractFields and extractFieldsFromPage raise nothing and return an
\* entry for every requested field: the value of the key-value mapping when
\* present and non-empty, otherwise the pattern value, null when neither
\* strategy finds the field.
C15_MappingThenPattern ==
    pc \in {"once", "paged"} =>
        /\ ~fnOut.threw
        /\ DOMAIN fnOut.fields = Requested
        /\ \A f \in Requested : fnOut.fields[f] = MappingThenPattern(Searched, f)

\* The same for the inputs whose ids resolve and the field names that are not
\* names of Object.prototype.
MappingThenPatternOwnNames ==
    (pc \in {"once", "paged"} /\ WellFormed(Searched)) =>
        /\ ~fnOut.threw
        /\ DOMAIN fnOut.fields = Requested
        /\ \A f \in Requested \ ObjectPrototypeNames :
              fnOut.fields[f] = MappingThenPattern(Searched, f)

\* A requested 'constructor' that neither strategy finds is not null.
InheritedReached ==
    /\ pc = "once"
    /\ fnArgs.blocks = <<>>
    /\ fnArgs.fieldsToExtract = <<sConstructor>>
    /\ fnOut.fields[sConstructor] = Inherited

NoHeaderLine(blocks) ==
    \A i \in 1..Len(blocks) :
        blocks[i].BlockType = "LINE" =>
            \A h \in 1..Len(headers) : blocks[i].Text # headers[h]

\* C17: extractTableData returns the empty list whenever no LINE block's text
\* equals one of the header labels, whatever other blocks are present.
C17_NoHeaderNoItems ==
    (pc = "returned" /\ NoHeaderLine(fnArgs.blocks)) => fnOut.items = <<>>

\* The label in lower case, a WORD block with a label and an item-number line:
\* nothing is returned.
C17_Witness ==
    /\ pc = "returned"
    /\ fnArgs.blocks = HeaderLines("lowercase")
                         \o BodyLines(<<[text |-> sItem1, place |-> "new"]>>, 1)
    /\ fnOut.items = <<>>

\* The text of the left-most line of every row group that is not a header
\* row, in the order in which the groups are met.
Leads(blocks) ==
    LET groups == lineGroups(tableLines(blocks))
        Body(g) == ~IsHeaderRow(g)
        body == SelectSeq(groups, Body)
    IN  [g \in 1..Len(body) |->
            LET group == body[g]
                i == CHOOSE k \in 1..Len(group) :
                        /\ \A j \in 1..Len(group) : group[k].Left <= group[j].Left
                        /\ \A j \in 1..(k - 1) : group[j].Left > group[k].Left
            IN  group[i].Text]

\* The row groups come in the order of their first lines among the blocks.
GroupsInEncounterOrder(blocks) ==
    LET lines == tableLines(blocks)
        groups == lineGroups(lines)
        First(g) == CHOOSE i \in 1..Len(lines) :
                        /\ RoundTop(lines[i].Top) = RoundTop(groups[g][1].Top)
                        /\ \A j \in 1..(i - 1) :
                              RoundTop(lines[j].Top) # RoundTop(groups[g][1].Top)
    IN  \A g, h \in 1..Len(groups) : g < h => First(g) < First(h)

\* The positions of the item-number groups among the leads, in order.
ItemGroups(leads) ==
    LET IsItem(i) == IsItemNo(leads[i])
    IN  SelectSeq([i \in 1..Len(leads) |-> i], IsItem)

\* C18: extractTableData returns one item per item-number row group, in the
\* order in which the groups are met, each once, the last one included, with
\* the quantity and unit of the last quantity group between it and the next
\* item-number group; the sample table gives items '1' and '2' with quantities
\* '2,000' and '500' and units 'pcs' and 'ea'.
C18_OneItemPerItemGroup ==
    (pc = "returned" /\ ~NoHeaderLine(fnArgs.blocks)) =>
        LET leads == Leads(fnArgs.blocks)
            at == ItemGroups(leads)
            items == fnOut.items
        IN  /\ GroupsInEncounterOrder(fnArgs.blocks)
            /\ Len(items) = Len(at)
            /\ \A k \in 1..Len(at) :
                  LET until == IF k < Len(at) THEN at[k + 1] ELSE Len(leads) + 1
                      qs == {j \in (at[k] + 1)..(until - 1) : QuantityMatch(leads[j]) # <<>>}
                      last == CHOOSE j \in qs : \A x \in qs : x <= j
                  IN  /\ items[k].itemNo = SubSeq(leads[at[k]], 1, Len(leads[at[k]]) - 1)
                      /\ items[k].quantity =
                            IF qs = {} THEN <<>> ELSE QuantityMatch(leads[last])[1]
                      /\ items[k].quantityUnit =
                            IF qs = {} THEN <<>>
                            ELSE toLowerCase(QuantityMatch(leads[last])[2])
            /\ fnArgs.blocks = SampleTable =>
                  /\ Len(items) = 2
                  /\ items[1].itemNo = <<"1">> /\ items[2].itemNo = <<"2">>
                  /\ items[1].quantity = <<"2",",","0","0","0">>
                  /\ items[2].quantity = <<"5","0","0">>
                  /\ items[1].quantityUnit = <<"p","c","s">>
                  /\ items[2].quantityUnit = <<"e","a">>

\* The sample table has been read: two items.
C18_Witness ==
    /\ pc = "returned"
    /\ fnArgs.blocks = SampleTable
    /\ Len(fnOut.items) = 2
    /\ fnOut.items[2].quantityUnit = <<"e","a">>

(***************************************************************************)
(* Properties of storeResultsInTables.                                     *)
(***************************************************************************)
\* Every (result, target table) pair, result by result, table by table.
RECURSIVE Pairs(_, _)
Pairs(rs, n) ==
    IF n = 0 THEN <<>>
    ELSE Pairs(rs, n - 1)
         \o (IF rs[n].targetTables = Undefined THEN <<>>
             ELSE [t \in 1..Len(rs[n].targetTables) |-> <<n, rs[n].targetTables[t]>>])

Attempted == [i \in 1..Len(puts) |-> <<puts[i].result, puts[i].table>>]

\* C19: in storeResultsInTables a failed write aborts nothing: whatever writes
\* failed before, every (result, target table) pair is attempted once, in
\* order, and the operation ends without raising.
C19_FailedPutAbortsNothing ==
    LET all == Pairs(results, Len(results))
    IN  /\ error = "none"
        /\ Len(puts) <= Len(all)
        /\ Attempted = SubSeq(all, 1, Len(puts))
        /\ pc = "stored" => Attempted = all

\* Two results, three pairs: the first write failed and the other two were
\* made all the same.
C19_Witness ==
    /\ pc = "stored"
    /\ Len(results) = 2
    /\ Len(puts) = 3
    /\ ~puts[1].ok /\ puts[2].ok /\ puts[3].ok
    /\ puts[2].result = 1 /\ puts[3].result = 2

(***************************************************************************)
(* Properties of the handler.                                              *)
(***************************************************************************)
\* The result has been written to the table.
Written(result, table) ==
    \E k \in 1..Len(puts) :
        /\ puts[k].pageNumber = result.pageNumber
        /\ puts[k].table = table
        /\ puts[k].ok

\* C20: when the handler returns its SUCCESS response, every result it
\* produced has been written to each of the result's target tables.
C20_StoredBeforeSuccess ==
    handlerStatus = "SUCCESS" =>
        \A i \in 1..Len(results) :
            ~NoTargetTables(results[i]) =>
                \A t \in 1..Len(results[i].targetTables) :
                    Written(results[i], results[i].targetTables[t])

\* The handler sends no PutCommand at all.
HandlerSendsNoPut == puts = <<>>

\* The handler has returned SUCCESS with a result that has a target table.
SuccessWithTargetTables ==
    /\ handlerStatus = "SUCCESS"
    /\ pageCount = 1
    /\ Len(results) = 1
    /\ results[1].targetTables = <<"T1">>
    /\ puts = <<>>

(***************************************************************************)
(* Properties of the handler: failures.                                    *)
(***************************************************************************)
\* The failures processing raises: no company on a single-page document, a
\* provider call or the registry scan that rejects, a TypeError.
RaisedFailure == error # "none"

\* The response is the structured failure naming the document, and it has
\* no results.
StructuredFailure ==
    /\ statusCode = 500
    /\ handlerStatus = "ERROR"
    /\ DOMAIN responseBody = {"error", "document"}
    /\ responseBody.document = sDocumentId

\* The target-table lookup of the single-page flow raised.
LookupThrew == lookup = "throws"

ProviderFailureReturned ==
    /\ pc = "returned"
    /\ error = "ProviderError"
    /\ pageCount > 1
    /\ StructuredFailure

(***************************************************************************)
(* Properties of processMultiPageDocument: the life of the job.            *)
(***************************************************************************)
\* The response reports SUCCEEDED or FAILED, or carries no cursor.
Terminal(response) ==
    response.JobStatus \in {"SUCCEEDED", "FAILED"} \/ response.NextToken = NoToken

\* A poll follows response i: its request is sent, or the loop is back at
\* its head about to send it.
PollFollows(i) == Len(requests) > i \/ (pc = "poll" /\ ~finished)

\* C22: the job is terminal as soon as a response reports SUCCEEDED or
\* FAILED or carries no cursor: no poll is issued after such a response, and
\* one is issued after a response that is IN_PROGRESS with a cursor.
C22_TerminalOnStatusOrNoCursor ==
    \A i \in 1..Len(responses) :
        /\ Terminal(responses[i]) => Len(requests) = i
        /\ (~Terminal(responses[i]) /\ i < MaxPolls) => PollFollows(i)

\* The statement of C22 on the runs in which no page of a batch raises the
\* TypeError of extractKeyValuePairs or getTextForBlock.
TerminalOnStatusOrNoCursorWhenIdsResolve ==
    error # "TypeError" => C22_TerminalOnStatusOrNoCursor

\* A second poll has followed a response that is IN_PROGRESS with a cursor,
\* and the loop has ended on the terminal response to it.
SecondPollThenTerminal ==
    /\ pc = "done"
    /\ Len(responses) = 2
    /\ ~Terminal(responses[1])
    /\ Terminal(responses[2])

\* C23: a FAILED response is a successful completion: when the loop ends on
\* it, the operation returns normally, without error, the results of all
\* the batches served, those of the FAILED batch included; and the loop ends
\* on every FAILED response whose pages were processed.
C23_FailedIsCompletion ==
    (/\ Len(responses) >= 1
     /\ Len(responses) = Len(requests)
     /\ Len(responses) < MaxPolls
     /\ LastResponse.JobStatus = "FAILED"
     /\ error = "none") =>
        /\ pc = "done"
        /\ finished
        /\ served <= Len(script) =>
              results = BatchResultsInOrder(SubSeq(script, 1, served), companyRecords, 1)

\* The loop has ended on a FAILED response that still had a cursor, and a
\* page of that batch is among the results returned.
C23_Witness ==
    /\ pc = "done"
    /\ error = "none"
    /\ Len(responses) = 2
    /\ LastResponse.JobStatus = "FAILED"
    /\ LastResponse.NextToken # NoToken
    /\ \E i \in 1..Len(results) :
          results[i].pageNumber >
              Len(SelectSeq(Blocks(script[1]), IsPage))

\* No poll is sent without the jobId of the one submission.
PollsHaveJobId ==
    \A i \in 1..Len(requests) :
        /\ requests[i].JobId # NoJob
        /\ requests[i].JobId = issuedJobId

\* A job is submitted only by a run that has not submitted one and has not
\* polled, and a run that has submitted never comes back to the submission.
SubmittedOnce ==
    /\ (issuedJobId' # issuedJobId \/ jobId' # jobId) =>
          /\ pc = "submit" /\ issuedJobId = NoJob /\ jobId = NoJob
          /\ requests = <<>> /\ requests' = <<>>
          /\ jobId' = issuedJobId' /\ jobId' # NoJob
    /\ pc # "submit" => pc' # "submit"
    /\ requests' # requests => jobId # NoJob

\* C24: the job is submitted exactly once per document and the submission
\* completes before the first poll: no poll without a jobId, no second
\* submission.
C24_SubmittedOnceBeforePolling ==
    /\ [](PollsHaveJobId /\ (pc \in {"poll", "awaiting", "done"} => jobId # NoJob))
    /\ [][SubmittedOnce]_vars

\* Two polls have been sent with the jobId of the submission.
C24_Witness ==
    /\ Len(requests) = 2
    /\ jobId # NoJob
    /\ requests[1].JobId = jobId
    /\ requests[2].JobId = jobId

\* The pageNumbers of the results increase strictly and lie between 1 and
\* the number of PAGE blocks processed so far.
PageNumbersIncrease ==
    /\ \A i, j \in 1..Len(results) :
          i < j => results[i].pageNumber < results[j].pageNumber
    /\ \A i \in 1..Len(results) :
          results[i].pageNumber >= 1 /\ results[i].pageNumber <= Len(pagesSeen)

\* The results accumulated stay as they are: results is a prefix of results'.
ResultsOnlyGrow ==
    /\ Len(results') >= Len(results)
    /\ SubSeq(results', 1, Len(results)) = results

\* C27: at every point of processMultiPageDocument the accumulated results
\* have strictly increasing pageNumbers, each between 1 and the number of
\* PAGE blocks processed so far, and results already accumulated are never
\* modified or removed by later batches.
C27_ResultsGrowInPageOrder ==
    /\ []PageNumbersIncrease
    /\ [][ResultsOnlyGrow]_vars

\* Results of two batches have been accumulated, a page without a company
\* between them.
C27_Witness ==
    /\ Len(responses) = 2
    /\ Len(results) >= 2
    /\ results[Len(results)].pageNumber > Len(results)
    /\ results[1].pageNumber <= Len(SelectSeq(Blocks(script[1]), IsPage))
    /\ results[Len(results)].pageNumber > Len(SelectSeq(Blocks(script[1]), IsPage))

(***************************************************************************)
(* Properties of extractTableData: the order of the scan, what is read.    *)
(***************************************************************************)
\* The blocks in the order of their tops, blocks of one top in the order
\* they had.
RECURSIVE SortByTop(_)
SortByTop(blocks) ==
    IF blocks = <<>> THEN <<>>
    ELSE LET i == CHOOSE k \in 1..Len(blocks) :
                     /\ \A j \in 1..Len(blocks) : blocks[k].Top <= blocks[j].Top
                     /\ \A j \in 1..(k - 1) : blocks[j].Top > blocks[k].Top
         IN  <<blocks[i]>>
             \o SortByTop(SubSeq(blocks, 1, i - 1) \o SubSeq(blocks, i + 1, Len(blocks)))

\* C25: extractTableData scans the row groups by increasing top whatever the
\* order of the LINE blocks in the input: it returns what it returns for the
\* same blocks listed from the top of the page down, the items from top to
\* bottom, each with the quantity and descriptions of the rows below it.
C25_ScansInVerticalOrder ==
    pc = "returned" =>
        fnOut.items = extractTableData(SortByTop(fnArgs.blocks))

\* On blocks listed from the top of the page down the scan is the vertical one.
ListedTopDown(blocks) == SortByTop(blocks) = blocks

\* The sample rows listed as '2.', '500 EA', '1.', '2,000 PCS' are returned
\* as items '2' and '1'.
ShuffledReturnedInListOrder ==
    /\ pc = "returned"
    /\ ~ListedTopDown(fnArgs.blocks)
    /\ Len(fnOut.items) = 2
    /\ fnOut.items[1].itemNo = <<"2">>
    /\ fnOut.items[2].itemNo = <<"1">>

\* The blocks at the positions of keep, in order.
RECURSIVE BlocksAt(_, _, _)
BlocksAt(blocks, keep, i) ==
    IF i > Len(blocks) THEN <<>>
    ELSE (IF i \in keep THEN <<blocks[i]>> ELSE <<>>) \o BlocksAt(blocks, keep, i + 1)

\* The positions of the lines of the table region.
InTable(blocks) ==
    LET top == tableTop(blocks)
    IN  {i \in 1..Len(blocks) :
            /\ blocks[i].BlockType = "LINE"
            /\ blocks[i].Top > top
            /\ blocks[i].Top < tableBottom}

SameRow(a, b) == RoundTop(a.Top) = RoundTop(b.Top)

\* The input without the lines of the table region that are not the
\* left-most of their row group, the first listed of those as far left.
LeftMostOnly(blocks) ==
    LET table == InTable(blocks)
        LeftMost(i) ==
            \A j \in table :
                SameRow(blocks[i], blocks[j]) =>
                    \/ blocks[i].Left < blocks[j].Left
                    \/ blocks[i].Left = blocks[j].Left /\ i <= j
    IN  BlocksAt(blocks, {i \in 1..Len(blocks) : i \notin table \/ LeftMost(i)}, 1)

\* The tops of the row groups met before the first item-number row group,
\* of all of them when there is none.
LeadingRows(blocks) ==
    LET groups == lineGroups(tableLines(blocks))
        IsItemRow(g) == ~IsHeaderRow(groups[g]) /\ IsItemNo(SortByLeft(groups[g])[1].Text)
        before == {g \in 1..Len(groups) : \A h \in 1..g : ~IsItemRow(h)}
    IN  {RoundTop(groups[g][1].Top) : g \in before}

\* The input without the lines of those row groups.
WithoutLeadingRows(blocks) ==
    LET table == InTable(blocks)
        leading == LeadingRows(blocks)
    IN  BlocksAt(blocks,
                 {i \in 1..Len(blocks) :
                     i \notin table \/ RoundTop(blocks[i].Top) \notin leading}, 1)

\* C30: every LineItem returned by extractTableData has unitPrice = '' and
\* amount = ''; only the left-most line of a row group is classified: the
\* other lines can be removed without changing what is returned; and the
\* row groups met before the first item-number row are ignored: they can be
\* removed without changing what is returned.
C30_PricesEmptyLeftMostRead ==
    (pc = "returned" /\ ~NoHeaderLine(fnArgs.blocks)) =>
        /\ \A i \in 1..Len(fnOut.items) :
              fnOut.items[i].unitPrice = <<>> /\ fnOut.items[i].amount = <<>>
        /\ fnOut.items = extractTableData(LeftMostOnly(fnArgs.blocks))
        /\ fnOut.items = extractTableData(WithoutLeadingRows(fnArgs.blocks))

\* A quantity row, then item '1.' with a product code to its right: one
\* item, without quantity, description or prices.
C30_Witness ==
    /\ pc = "returned"
    /\ fnArgs.blocks = HeaderLines("labels")
                         \o BodyLines(<<[text |-> sQty1, place |-> "new"],
                                        [text |-> sItem1, place |-> "new"],
                                        [text |-> sCode, place |-> "right"]>>, 3)
    /\ fnOut.items = <<[itemNo |-> <<"1">>, quantity |-> <<>>, quantityUnit |-> <<>>,
                        descriptions |-> <<>>, unitPrice |-> <<>>, amount |-> <<>>]>>

(***************************************************************************)
(* Properties of the extraction of a page within a batch.                  *)
(***************************************************************************)
\* The two batches hold the same blocks of page 1, in the same order.
SameOwnBlocks ==
    OnPage(fnArgs.blocks, Pg1) = OnPage(fnArgs.otherBlocks, Pg1)

\* C26: within one batch the fields extracted for a page depend only on the
\* page's own blocks: of two batches that hold the same blocks of the page
\* and any blocks of other pages, the page gets the same text, the same
\* extractedFields and the same outcome, success or exception.
C26_PageIndependent ==
    (pc = "compared" /\ SameOwnBlocks) =>
        /\ fnOut.first.text = fnOut.second.text
        /\ fnOut.first.extracted = fnOut.second.extracted
        /\ fnOut.first.iteration = fnOut.second.iteration

\* Page 1 gives the Date of its own key in a batch whose page 2 has a key
\* 'Date:' with another value, and in a batch whose page 2 has a key that
\* would raise.
C26_Witness ==
    /\ pc = "compared"
    /\ fnArgs.own = FieldKv("date05") \o OwnLines("acme")
    /\ fnArgs.blocks = Batch(fnArgs.own, "kv", "after")
    /\ fnArgs.otherBlocks = Batch(fnArgs.own, "dangling", "before")
    /\ fnArgs.fieldsToExtract = <<sDate>>
    /\ ~fnOut.first.extracted.threw
    /\ fnOut.first.extracted.fields[sDate] = sWord05
    /\ Len(fnOut.second.iteration.results) = 1

\* A page whose own key raises does so in every batch.
OwnFailureInBothBatches ==
    /\ pc = "compared"
    /\ fnArgs.blocks # fnArgs.otherBlocks
    /\ fnOut.first.extracted.threw
    /\ fnOut.second.extracted.threw

(***************************************************************************)
(* Properties of the handler: routing and responses.                       *)
(***************************************************************************)
\* getPageCount has returned.
Counted == probe # <<>>

\* HeadObject or the LAYOUT analysis raised inside getPageCount.
CountingFailed == Counted /\ (probe.head.threw \/ probe.layout.threw)

\* The handler has called processSinglePageDocument.
SingleFlow == document # "none"

\* The handler has gone on to step 2 and processMultiPageDocument.
MultiFlow ==
    /\ document = "none" /\ calls = <<>>
    /\ \/ pc = "loading"
       \/ script # <<>>
       \/ pc = "returned" /\ error = "ProviderError"

\* The step of getPageCount raises nothing and hands over to one of the flows.
CountingNeverRaises ==
    (pc = "invoked" /\ event = "s3-record") =>
        /\ error' = "none"
        /\ pc' \in {"loading", "analyze"}
        /\ handlerStatus' = "none"

\* C28: getPageCount never raises: when the metadata lookup or the layout
\* analysis fails it returns 1 and the handler takes the single-page flow;
\* the handler takes the multi-page flow exactly when the count is greater
\* than 1.
C28_CountDefaultsToSinglePage ==
    /\ [](Counted =>
            /\ CountingFailed => (pageCount = 1 /\ SingleFlow)
            /\ MultiFlow <=> pageCount > 1
            /\ SingleFlow <=> ~(pageCount > 1)
            /\ SingleFlow => (script = <<>> /\ requests = <<>> /\ jobId = NoJob))
    /\ [][CountingNeverRaises]_vars

\* The layout analysis raised after HeadObject gave no count: the document
\* has been analysed as a single page.
C28_Witness ==
    /\ Counted
    /\ ~probe.head.threw
    /\ probe.layout.threw
    /\ pageCount = 1
    /\ "analyzeDocument" \in {calls[i] : i \in 1..Len(calls)}

\* A count of 3 read from the metadata has led to a submitted job.
MultiFlowFromMetadata ==
    /\ Counted
    /\ probe.head.value = <<"3">>
    /\ pageCount = 3
    /\ jobId # NoJob

\* A metadata entry that is no number gives NaN, and the single-page flow.
NotANumberIsSinglePage ==
    /\ Counted
    /\ pageCount = NaNValue
    /\ SingleFlow

\* Nothing was thrown up to the handler: the event had its record, the
\* registry was loaded where it had to be and the orchestrator returned.
NothingThrown == error = "none"

\* Where the handler is while a call it awaits has not settled.
AwaitingPositions ==
    {"invoked", "loading", "analyze", "identify", "tables", "submit", "poll", "awaiting"}

\* C29: the handler never raises: every invocation that ends returns a
\* response, either statusCode 200 with status SUCCESS and resultsCount the
\* number of results, or statusCode 500 with status ERROR; it is the first
\* exactly when page counting, registry loading and the orchestrator
\* completed without throwing.
C29_AlwaysAResponse ==
    /\ pc \in AwaitingPositions \cup {"done", "failed", "returned"}
    /\ pc # "returned" => statusCode = 0
    /\ pc = "done" => ENABLED ProcessDocument
    /\ pc = "failed" => ENABLED ProcessDocumentFails
    /\ (pc = "invoked" /\ event = "no-records") => ENABLED MalformedEvent
    /\ pc = "returned" =>
          /\ \/ /\ statusCode = 200 /\ handlerStatus = "SUCCESS"
                /\ DOMAIN responseBody = {"pageCount", "resultsCount", "results"}
                /\ responseBody.resultsCount = Len(responseBody.results)
                /\ responseBody.results = results
                /\ responseBody.pageCount = pageCount
             \/ /\ statusCode = 500 /\ handlerStatus = "ERROR"
                /\ DOMAIN responseBody = {"error", "document"}
          /\ statusCode = 200 <=> NothingThrown

\* The handler has returned SUCCESS for a multi-page document whose second
\* page gave the one result.
C29_Witness ==
    /\ pc = "returned"
    /\ statusCode = 200
    /\ pageCount > 1
    /\ responseBody.resultsCount = 1
    /\ responseBody.results[1].pageNumber = 2

\* The handler has returned ERROR for an event without a record.
MalformedEventReturned ==
    /\ pc = "returned"
    /\ event = "no-records"
    /\ statusCode = 500
    /\ responseBody.document = "unknown"
====
